---- MODULE Spec2Model ----
(***************************************************************************)
(* Model of the KSeF timer trigger: the recency filter checked_recently,   *)
(* the message builder create_list_of_messages, the response validator and *)
(* the pipelines list_of_clients.get and function_app.timer_trigger_api.   *)
(*                                                                         *)
(* Time is counted in whole hours.  Python values are records of one       *)
(* shape, [ty, s, t, off]: ty is the Python type, s the text of a str,     *)
(* and t, off the local time and UTC offset written in an ISO-8601 text    *)
(* (or the length of a timedelta, or the value of an int, in t).           *)
(***************************************************************************)
EXTENDS Integers, Sequences, FiniteSets, TLC

VARIABLES
    utc_now,            \* the wall clock, datetime.datetime.utcnow()
    datetime_string,    \* argument of a direct call of checked_recently
    target_timedelta,   \* argument of a direct call of checked_recently
    result,             \* what the direct call returned or raised
    pc,                 \* position of the running call
    entry,              \* the function that was called
    query_result,       \* create_list_of_messages: the records to filter
    re_run_interval,    \* create_list_of_messages: the window
    func_checked_recently, \* create_list_of_messages: the filter
    filter_results,     \* what the filter returned or raised, per record so far
    list_of_messages,   \* create_list_of_messages: the messages built so far
    outcome,            \* how the call ended
    response_json,      \* what the storage table connector answered
    sent,               \* the messages handed to the queue, in order
    log_records,        \* what the running call logged at INFO and above
    message_str,        \* argument of a direct call of a function of the queue modules
    delay_multiplier,   \* the delay multiplier of the running call
    list_of_service_bus_messages, \* messages_to_queue.send: the ServiceBusMessages built
    batch_message,      \* messages_to_queue.send: the batch, once it is built
    previous,           \* how the invocation before the running one ended
    clock_moved,        \* whether the clock moved since the last invocation began
    handlers,           \* the "log" logger: its handlers, in order
    level,              \* the "log" logger: its level
    root_handlers,      \* the handlers of the root logger, which the host installs
    set_up_calls,       \* how many calls of a set_up there were
    last_set_up,        \* the most recent call of a set_up: arguments and outcome
    store,              \* the ClientConfig table, as the connector returns it
    invocation,         \* overlapping invocations of the trigger: the locals of each
    servicebus_queue    \* the Service Bus queue they share: who scheduled what

filter_vars == <<datetime_string, target_timedelta, result>>
build_vars == <<pc, entry, query_result, re_run_interval, func_checked_recently,
                filter_results, list_of_messages, outcome>>
pipe_vars == <<response_json, sent, log_records>>
queue_vars == <<message_str, delay_multiplier, list_of_service_bus_messages, batch_message>>
cycle_vars == <<previous, clock_moved>>
logger_vars == <<handlers, level, root_handlers, set_up_calls, last_set_up>>
overlap_vars == <<store, invocation, servicebus_queue>>
vars == <<utc_now, filter_vars, build_vars, pipe_vars, queue_vars, cycle_vars, logger_vars,
          overlap_vars>>

----------------------------------------------------------------------------
(* Bounds of the model *)

MaxTime == 4
MaxWindow == 3
MaxRecords == 2
MaxIteration == 2
MaxMultiplier == 3
MaxCalls == 3

(* Program constants *)

ITERATION == 0
RE_RUN_INTERVAL_HOURS == 2
MINUTES_PER_HOUR == 60
DELAY_MULTIPLIER == 10
DEBUG == 10
INFO == 20

----------------------------------------------------------------------------
(* Python values *)

PyNone == [ty |-> "NoneType", s |-> "", t |-> 0, off |-> 0]
PyStr(text) == [ty |-> "str", s |-> text, t |-> 0, off |-> 0]
PyInt(n) == [ty |-> "int", s |-> "", t |-> n, off |-> 0]
PyObject == [ty |-> "object", s |-> "", t |-> 0, off |-> 0]
Timedelta(n) == [ty |-> "timedelta", s |-> "", t |-> n, off |-> 0]
\* the text datetime.isoformat() writes for an offset-aware datetime whose
\* local fields read t and whose offset is off, e.g. "...T03:00:00+01:00"
IsoAware(t, off) == [ty |-> "str", s |-> "ISO+OFFSET", t |-> t, off |-> off]
\* the text of a datetime without tzinfo, e.g. "...T03:00:00"
IsoNaive(t) == [ty |-> "str", s |-> "ISO", t |-> t, off |-> 0]

Times == 0..MaxTime
Offsets == {-1, 0, 1}

Sentinels == {PyStr("null"), PyStr("None")}
Malformed == {PyStr("invalid")}
AwareStamps == {IsoAware(t, off) : t \in Times, off \in Offsets}
NaiveStamps == {IsoNaive(t) : t \in Times}
DatetimeStrings ==
    {PyNone, PyInt(1)} \cup Sentinels \cup Malformed \cup AwareStamps \cup NaiveStamps

Durations == {Timedelta(w) : w \in 0..MaxWindow}
NotDurations == {PyStr("invalid"), PyInt(RE_RUN_INTERVAL_HOURS), PyNone}
Windows == Durations \cup NotDurations

----------------------------------------------------------------------------
(* Outcomes of a call *)

Return(v) == [kind |-> "return", exc |-> "", val |-> v]
Raise(e) == [kind |-> "raise", exc |-> e, val |-> FALSE]
NotCalled == [kind |-> "not called", exc |-> "", val |-> FALSE]

----------------------------------------------------------------------------
(* datetime.datetime.fromisoformat: a str holding an ISO-8601 text parses  *)
(* to a datetime (aware when the text carries an offset), any other str    *)
(* raises ValueError, and a value that is no str raises TypeError.         *)

fromisoformat(v) ==
    IF v.ty # "str" THEN [ok |-> FALSE, exc |-> "TypeError", aware |-> FALSE, t |-> 0, off |-> 0]
    ELSE IF v.s = "ISO+OFFSET" THEN [ok |-> TRUE, exc |-> "", aware |-> TRUE, t |-> v.t, off |-> v.off]
    ELSE IF v.s = "ISO" THEN [ok |-> TRUE, exc |-> "", aware |-> FALSE, t |-> v.t, off |-> 0]
    ELSE [ok |-> FALSE, exc |-> "ValueError", aware |-> FALSE, t |-> 0, off |-> 0]

\* the instant of an aware datetime on the UTC time line
UtcInstant(d) == d.t - d.off

\* faulty variant: boundary included (<= instead of <)
checked_recently_le(ds, td, now) ==
    LET last_successful_run == fromisoformat(ds) IN
    IF ~last_successful_run.ok
    THEN IF last_successful_run.exc = "ValueError" THEN Return(FALSE) ELSE Raise("TypeError")
    ELSE IF ~last_successful_run.aware THEN Raise("TypeError")
    ELSE IF td.ty # "timedelta" THEN Raise("TypeError")
    ELSE Return((now - UtcInstant(last_successful_run)) <= td.t)

\* faulty variant: a timestamp without offset is read as UTC
checked_recently_assume_utc(ds, td, now) ==
    LET last_successful_run == fromisoformat(ds) IN
    IF ~last_successful_run.ok
    THEN IF last_successful_run.exc = "ValueError" THEN Return(FALSE) ELSE Raise("TypeError")
    ELSE IF td.ty # "timedelta" THEN Raise("TypeError")
    ELSE Return((now - UtcInstant(last_successful_run)) < td.t)

\* faulty variant: a last run that lies ahead of the clock is not "recent"
checked_recently_past_only(ds, td, now) ==
    LET last_successful_run == fromisoformat(ds) IN
    IF ~last_successful_run.ok
    THEN IF last_successful_run.exc = "ValueError" THEN Return(FALSE) ELSE Raise("TypeError")
    ELSE IF ~last_successful_run.aware THEN Raise("TypeError")
    ELSE IF td.ty # "timedelta" THEN Raise("TypeError")
    ELSE Return(/\ 0 <= now - UtcInstant(last_successful_run)
                /\ (now - UtcInstant(last_successful_run)) < td.t)

\* faulty variant: a window that is no timedelta is taken as "not recent"
checked_recently_coerce(ds, td, now) ==
    LET last_successful_run == fromisoformat(ds) IN
    IF ~last_successful_run.ok
    THEN IF last_successful_run.exc = "ValueError" THEN Return(FALSE) ELSE Raise("TypeError")
    ELSE IF ~last_successful_run.aware THEN Raise("TypeError")
    ELSE IF td.ty # "timedelta" THEN Return(FALSE)
    ELSE Return((now - UtcInstant(last_successful_run)) < td.t)

(* checked_recently(datetime_string, target_timedelta), with the clock it  *)
(* reads passed as now.  utc_now is offset-aware (tzinfo=utc); the parse   *)
(* comes next, then the subtraction, then the comparison.  ValueError is   *)
(* absorbed as False, TypeError is logged and raised again.                *)
checked_recently(ds, td, now) ==
    LET last_successful_run == fromisoformat(ds) IN
    IF ~last_successful_run.ok
    THEN IF last_successful_run.exc = "ValueError" THEN Return(FALSE) ELSE Raise("TypeError")
    ELSE IF ~last_successful_run.aware THEN Raise("TypeError")   \* aware - naive
    ELSE IF td.ty # "timedelta" THEN Raise("TypeError")          \* timedelta < non-timedelta
    ELSE Return((now - UtcInstant(last_successful_run)) < td.t)

----------------------------------------------------------------------------
(* JSON.  A JSON text is a sequence of tokens; a dict is the sequence of   *)
(* its entries in insertion order, each entry holding a scalar or a flat   *)
(* list of scalars.                                                        *)

Absent == [ty |-> "absent", s |-> "", t |-> 0, off |-> 0]   \* key not in the dict

Tok(k, v) == [k |-> k, v |-> v]
Punct(k) == Tok(k, PyNone)
Scalar(key, v) == [key |-> key, islist |-> FALSE, items |-> <<v>>]
List(key, vs) == [key |-> key, islist |-> TRUE, items |-> vs]

\* what json.dumps can write: str, None and int; any other type is a TypeError
Serializable(v) == v.ty \in {"str", "NoneType", "int"}

\* faulty variant: None written as the text "null" in quotes
json_dumps_value_quoted_null(v) ==
    IF v.ty = "NoneType" THEN <<Tok("string", PyStr("null"))>>
    ELSE IF v.ty = "int" THEN <<Tok("number", v)>>
    ELSE <<Tok("string", v)>>

\* json.dumps of a scalar: None is written null, a str in quotes, an int bare
json_dumps_value(v) ==
    IF v.ty = "NoneType" THEN <<Punct("null")>>
    ELSE IF v.ty = "int" THEN <<Tok("number", v)>>
    ELSE <<Tok("string", v)>>

RECURSIVE json_dumps_items(_)
json_dumps_items(vs) ==
    IF vs = <<>> THEN <<>>
    ELSE json_dumps_value(Head(vs))
         \o (IF Len(vs) > 1 THEN <<Punct(",")>> \o json_dumps_items(Tail(vs)) ELSE <<>>)

json_dumps_entry(e) ==
    <<Tok("string", PyStr(e.key)), Punct(":")>>
    \o (IF e.islist THEN <<Punct("[")>> \o json_dumps_items(e.items) \o <<Punct("]")>>
        ELSE json_dumps_value(e.items[1]))

RECURSIVE json_dumps_entries(_)
json_dumps_entries(obj) ==
    IF obj = <<>> THEN <<>>
    ELSE json_dumps_entry(Head(obj))
         \o (IF Len(obj) > 1 THEN <<Punct(",")>> \o json_dumps_entries(Tail(obj)) ELSE <<>>)

\* json.dumps(obj) of a dict
json_dumps(obj) == <<Punct("{")>> \o json_dumps_entries(obj) \o <<Punct("}")>>

json_loads_value(tok) == IF tok.k = "null" THEN PyNone ELSE tok.v

RECURSIVE json_loads_items(_, _, _)
json_loads_items(text, i, acc) ==
    IF text[i].k = "]" THEN [items |-> acc, next |-> i + 1]
    ELSE IF text[i].k = "," THEN json_loads_items(text, i + 1, acc)
    ELSE json_loads_items(text, i + 1, Append(acc, json_loads_value(text[i])))

RECURSIVE json_loads_entries(_, _, _)
json_loads_entries(text, i, acc) ==
    IF text[i].k = "}" THEN acc
    ELSE IF text[i].k = "," THEN json_loads_entries(text, i + 1, acc)
    ELSE LET key == text[i].v.s IN      \* text[i+1] is the colon
         IF text[i + 2].k = "["
         THEN LET r == json_loads_items(text, i + 3, <<>>)
              IN json_loads_entries(text, r.next, Append(acc, List(key, r.items)))
         ELSE json_loads_entries(text, i + 3,
                                 Append(acc, Scalar(key, json_loads_value(text[i + 2]))))

\* json.loads(s) of the text of a dict
json_loads(text) == json_loads_entries(text, 2, <<>>)

----------------------------------------------------------------------------
(* Records of the ClientConfig table and the messages built from them *)

QUERY_ELEM_REF_NO == PyNone
PART_ELEM_REF_NO == PyNone

Item(pk, last, pen) ==
    [PartitionKey |-> pk,
     last_successfull_download_run |-> last,
     penultimate_successfull_download_run |-> pen]

\* records as response.json() can deliver them
StoreItems ==
    { Item(PyStr("1111111111"), PyNone, PyNone),
      Item(PyStr("1111111111"), PyStr("null"), PyStr("null")),
      Item(PyStr("A"), IsoAware(1, 0), IsoAware(0, 0)),
      Item(PyStr("A"), IsoAware(3, 0), IsoAware(1, 0)),
      Item(PyStr("B"), IsoAware(1, 0), PyNone),
      Item(PyStr("B"), IsoNaive(1), PyNone),
      Item(PyStr("A"), Absent, PyNone) }

\* records a direct caller can also pass: a field json.dumps cannot write
CallerItems ==
    StoreItems \cup { Item(PyObject, PyStr("null"), PyNone),
                      Item(PyObject, IsoAware(3, 0), PyNone) }

SeqsUpTo(S, n) == UNION { [1..k -> S] : k \in 0..n }

\* the filter handed to create_list_of_messages: checked_recently itself, or a
\* unittest Mock(return_value=ret)
RealFilter == [fn |-> "checked_recently", ret |-> FALSE]
MockFilter(b) == [fn |-> "Mock", ret |-> b]
Filters == {RealFilter, MockFilter(TRUE), MockFilter(FALSE)}

call_filter(f, ds, td, now) ==
    IF f.fn = "Mock" THEN Return(f.ret) ELSE checked_recently(ds, td, now)

\* faulty variant: the iteration stamped on a message is one more than ITERATION
build_message_incremented(item) ==
    << Scalar("NIP", item.PartitionKey),
       List("last_successful_downloads",
            <<item.last_successfull_download_run,
              item.penultimate_successfull_download_run>>),
       Scalar("iteration", PyInt(ITERATION + 1)),
       Scalar("query_elem_ref_no", QUERY_ELEM_REF_NO),
       Scalar("part_elem_ref_no", PART_ELEM_REF_NO) >>

\* the message dict of one record, keys in the order they are written
build_message(item) ==
    << Scalar("NIP", item.PartitionKey),
       List("last_successful_downloads",
            <<item.last_successfull_download_run,
              item.penultimate_successfull_download_run>>),
       Scalar("iteration", PyInt(ITERATION)),
       Scalar("query_elem_ref_no", QUERY_ELEM_REF_NO),
       Scalar("part_elem_ref_no", PART_ELEM_REF_NO) >>

----------------------------------------------------------------------------
(* The response of the storage table connector, as response.json() gives   *)
(* it: keys holds the top-level keys that are there; error is null or a    *)
(* dict whose own keys are listed in its keys.                             *)

NoError == [isnull |-> TRUE, keys |-> {}, error |-> "", message |-> ""]
ErrorDict(k, c, m) == [isnull |-> FALSE, keys |-> k, error |-> c, message |-> m]
Errors ==
    { NoError,
      ErrorDict({"error", "message"}, "Forbidden", "denied"),
      ErrorDict({"error"}, "Forbidden", "") }

Response(k, e, qr) == [keys |-> k, error |-> e, query_result |-> qr]
NoResponse == Response({}, NoError, <<>>)
Responses ==
    { r \in [keys : SUBSET {"error", "query_result"}, error : Errors,
             query_result : SeqsUpTo(StoreItems, MaxRecords)] :
        /\ ("error" \notin r.keys => r.error = NoError)
        /\ ("query_result" \notin r.keys => r.query_result = <<>>) }

----------------------------------------------------------------------------
(* How a call ends *)

Running == [kind |-> "running", exc |-> "", msg |-> <<>>]
Returned == [kind |-> "return", exc |-> "", msg |-> <<>>]
Raised(e, m) == [kind |-> "raise", exc |-> e, msg |-> m]
\* sys.exit(text): SystemExit, which is no Exception
Exited(m) == [kind |-> "exit", exc |-> "SystemExit", msg |-> m]

----------------------------------------------------------------------------
(* The "log" logger and the two set_up functions (modules/logger.py and    *)
(* modules/utilities/custom_logger.py), which configure the same logger    *)
(* object.  A format string is the sequence of its pieces: %(name)s fields *)
(* and plain text.  A handler is known by the call that made it.           *)

FormatField(name) == [k |-> "field", v |-> name]
FormatText(text) == [k |-> "text", v |-> text]
FormatStr(pieces) == [ty |-> "str", pieces |-> pieces]
FormatNone == [ty |-> "NoneType", pieces |-> <<>>]

\* "%(levelname)s, %(name)s.%(funcName)s: %(message)s"
MESSAGE_FORMAT ==
    FormatStr(<< FormatField("levelname"), FormatText(", "), FormatField("name"),
                 FormatText("."), FormatField("funcName"), FormatText(": "),
                 FormatField("message") >>)
\* logging's own default, "%(message)s"
DEFAULT_FORMAT == <<FormatField("message")>>

\* logging.Formatter(fmt): an empty or missing fmt gives the default one,
\* and a fmt without any %(...) field is refused
Formatter(fmt) ==
    IF fmt.pieces = <<>> THEN Return(DEFAULT_FORMAT)
    ELSE IF \E i \in 1..Len(fmt.pieces) : fmt.pieces[i].k = "field"
         THEN Return(fmt.pieces)
         ELSE Raise("ValueError")

\* logging._checkLevel, called by Logger.setLevel: an int is taken as it is,
\* a str must be the exact name of a level
checkLevel(lv) ==
    IF lv.ty = "int" THEN Return(lv.t)
    ELSE IF lv.ty = "str"
         THEN IF lv.s = "DEBUG" THEN Return(DEBUG)
              ELSE IF lv.s = "INFO" THEN Return(INFO)
              ELSE Raise("ValueError")
         ELSE Raise("TypeError")

\* str.upper() on the level names of the model
upper(text) ==
    CASE text = "debug" -> "DEBUG"
      [] text = "Info" -> "INFO"
      [] text = "verbose" -> "VERBOSE"
      [] text = "basic_format" -> "BASIC_FORMAT"
      [] OTHER -> text

\* getattr(logging, name, None)
logging_getattr(name) ==
    CASE name = "DEBUG" -> PyInt(DEBUG)
      [] name = "INFO" -> PyInt(INFO)
      [] name = "BASIC_FORMAT" -> PyStr("%(levelname)s:%(name)s:%(message)s")
      [] OTHER -> PyNone

\* custom_logger.get_logger_level: the level named by the string, or the
\* default when the name is not that of an int of the logging module
get_logger_level(level_string) ==
    IF level_string.ty # "str" THEN Raise("AttributeError")
    ELSE LET logger_level == logging_getattr(upper(level_string.s)) IN
         IF logger_level.ty # "int" THEN Return(INFO) ELSE Return(logger_level.t)

\* Logger.hasHandlers(): the logger or one it propagates to has a handler
hasHandlers(log_handlers, root) == log_handlers # <<>> \/ root # <<>>

StreamHandler(formatter, call) == [formatter |-> formatter, call |-> call]
Logger(hs, lv, out) == [handlers |-> hs, level |-> lv, out |-> out]

\* faulty variant of logger.set_up: the handlers are not cleared
logger_set_up_accumulate(hs, lv, root, message_format, level_arg, call) ==
    LET checked == checkLevel(level_arg)
        formatter == Formatter(message_format)
    IN IF checked.kind = "raise" THEN Logger(hs, lv, Raised(checked.exc, <<>>))
       ELSE IF formatter.kind = "raise"
            THEN Logger(hs, checked.val, Raised(formatter.exc, <<>>))
            ELSE Logger(Append(hs, StreamHandler(formatter.val, call)),
                        checked.val, Returned)

\* logger.set_up: setLevel, then the handler with its formatter, then the
\* handlers are cleared and the new one is added
logger_set_up(hs, lv, root, message_format, level_arg, call) ==
    LET checked == checkLevel(level_arg)
        formatter == Formatter(message_format)
        cleared == IF hasHandlers(hs, root) THEN <<>> ELSE hs
    IN IF checked.kind = "raise" THEN Logger(hs, lv, Raised(checked.exc, <<>>))
       ELSE IF formatter.kind = "raise"
            THEN Logger(hs, checked.val, Raised(formatter.exc, <<>>))
            ELSE Logger(Append(cleared, StreamHandler(formatter.val, call)),
                        checked.val, Returned)

\* custom_logger.set_up: the handler first, the level last
custom_logger_set_up(hs, lv, root, message_format, level_string, call) ==
    LET formatter == Formatter(message_format)
        cleared == IF hasHandlers(hs, root) THEN <<>> ELSE hs
        logger_level == get_logger_level(level_string)
    IN IF formatter.kind = "raise" THEN Logger(hs, lv, Raised(formatter.exc, <<>>))
       ELSE LET installed == Append(cleared, StreamHandler(formatter.val, call)) IN
            IF logger_level.kind = "raise"
            THEN Logger(installed, lv, Raised(logger_level.exc, <<>>))
            ELSE Logger(installed, logger_level.val, Returned)

\* the arguments callers pass
Formats ==
    { FormatNone, MESSAGE_FORMAT, FormatStr(<<>>), FormatStr(<<FormatField("message")>>),
      FormatStr(<<FormatText("plain")>>) }
LevelArgs == {PyInt(DEBUG), PyInt(INFO), PyStr("INFO"), PyStr("debug"), PyNone}
LevelStrings ==
    { PyStr("DEBUG"), PyStr("debug"), PyStr("Info"), PyStr("verbose"),
      PyStr("basic_format"), PyNone }

SetUpCall(fn, message_format, lv, out) ==
    [fn |-> fn, message_format |-> message_format, level |-> lv, out |-> out]
NoSetUp == SetUpCall("", FormatNone, PyNone, Running)

\* the logger of a fresh interpreter: no handler, level NOTSET
LoggerFresh ==
    /\ handlers = <<>>
    /\ level = 0
    /\ set_up_calls = 0
    /\ last_set_up = NoSetUp

\* function_app at load: logger.set_up(level=logging.DEBUG)
LoggerLoaded ==
    LET l == logger_set_up(<<>>, 0, <<>>, MESSAGE_FORMAT, PyInt(DEBUG), 1) IN
    /\ handlers = l.handlers
    /\ level = l.level
    /\ root_handlers = <<>>
    /\ set_up_calls = 1
    /\ last_set_up = SetUpCall("logger.set_up", MESSAGE_FORMAT, PyInt(DEBUG), l.out)

----------------------------------------------------------------------------
(* create_list_of_messages: one pass of the loop over query_result, and    *)
(* the statements after the loop.  A pass gives the filter's outcome (fr,  *)
(* empty when the filter was not reached), the list and how the call goes  *)
(* on.                                                                     *)

Pass(fr, list, out) == [fr |-> fr, list |-> list, out |-> out]

\* a record of the "log" logger, level INFO or above
Log(levelname, msg) == [level |-> levelname, msg |-> msg]

\* faulty variant: the new message is put in front of the list
create_list_of_messages_loop_prepend(item, f, td, now, list) ==
    IF item.last_successfull_download_run = Absent
    THEN Pass(<<>>, list, Raised("KeyError", <<"last_successfull_download_run">>))
    ELSE LET r == call_filter(f, item.last_successfull_download_run, td, now) IN
         IF r.kind = "raise" THEN Pass(<<r>>, list, Raised(r.exc, <<>>))
         ELSE IF r.val # FALSE THEN Pass(<<r>>, list, Running)
         ELSE IF item.PartitionKey = Absent
         THEN Pass(<<r>>, list, Raised("KeyError", <<"PartitionKey">>))
         ELSE IF item.penultimate_successfull_download_run = Absent
         THEN Pass(<<r>>, list, Raised("KeyError", <<"penultimate_successfull_download_run">>))
         ELSE IF \E e \in 1..Len(build_message(item)) :
                    \E k \in 1..Len(build_message(item)[e].items) :
                        ~Serializable(build_message(item)[e].items[k])
         THEN Pass(<<r>>, list, Raised("TypeError", <<>>))
         ELSE Pass(<<r>>, <<json_dumps(build_message(item))>> \o list, Running)

\* faulty variant: a record json.dumps cannot write is passed over
create_list_of_messages_loop_skip_unwritable(item, f, td, now, list) ==
    IF item.last_successfull_download_run = Absent
    THEN Pass(<<>>, list, Raised("KeyError", <<"last_successfull_download_run">>))
    ELSE LET r == call_filter(f, item.last_successfull_download_run, td, now) IN
         IF r.kind = "raise" THEN Pass(<<r>>, list, Raised(r.exc, <<>>))
         ELSE IF r.val # FALSE THEN Pass(<<r>>, list, Running)
         ELSE IF item.PartitionKey = Absent
         THEN Pass(<<r>>, list, Raised("KeyError", <<"PartitionKey">>))
         ELSE IF item.penultimate_successfull_download_run = Absent
         THEN Pass(<<r>>, list, Raised("KeyError", <<"penultimate_successfull_download_run">>))
         ELSE IF \E e \in 1..Len(build_message(item)) :
                    \E k \in 1..Len(build_message(item)[e].items) :
                        ~Serializable(build_message(item)[e].items[k])
         THEN Pass(<<r>>, list, Running)
         ELSE Pass(<<r>>, Append(list, json_dumps(build_message(item))), Running)

\* faulty variant: the filter is asked about the run before the last one
create_list_of_messages_loop_penultimate(item, f, td, now, list) ==
    IF item.penultimate_successfull_download_run = Absent
    THEN Pass(<<>>, list, Raised("KeyError", <<"penultimate_successfull_download_run">>))
    ELSE LET r == call_filter(f, item.penultimate_successfull_download_run, td, now) IN
         IF r.kind = "raise" THEN Pass(<<r>>, list, Raised(r.exc, <<>>))
         ELSE IF r.val # FALSE THEN Pass(<<r>>, list, Running)
         ELSE IF item.PartitionKey = Absent
         THEN Pass(<<r>>, list, Raised("KeyError", <<"PartitionKey">>))
         ELSE IF item.last_successfull_download_run = Absent
         THEN Pass(<<r>>, list, Raised("KeyError", <<"last_successfull_download_run">>))
         ELSE IF \E e \in 1..Len(build_message(item)) :
                    \E k \in 1..Len(build_message(item)[e].items) :
                        ~Serializable(build_message(item)[e].items[k])
         THEN Pass(<<r>>, list, Raised("TypeError", <<>>))
         ELSE Pass(<<r>>, Append(list, json_dumps(build_message(item))), Running)

create_list_of_messages_loop(item, f, td, now, list) ==
    IF item.last_successfull_download_run = Absent
    THEN Pass(<<>>, list, Raised("KeyError", <<"last_successfull_download_run">>))
    ELSE LET r == call_filter(f, item.last_successfull_download_run, td, now) IN
         IF r.kind = "raise" THEN Pass(<<r>>, list, Raised(r.exc, <<>>))
         ELSE IF r.val # FALSE THEN Pass(<<r>>, list, Running)      \* "is False"
         ELSE IF item.PartitionKey = Absent
         THEN Pass(<<r>>, list, Raised("KeyError", <<"PartitionKey">>))
         ELSE IF item.penultimate_successfull_download_run = Absent
         THEN Pass(<<r>>, list, Raised("KeyError", <<"penultimate_successfull_download_run">>))
         ELSE IF \E e \in 1..Len(build_message(item)) :
                    \E k \in 1..Len(build_message(item)[e].items) :
                        ~Serializable(build_message(item)[e].items[k])
         THEN Pass(<<r>>, list, Raised("TypeError", <<>>))
         ELSE Pass(<<r>>, Append(list, json_dumps(build_message(item))), Running)

\* faulty variant: an empty list is returned like any other
create_list_of_messages_exit_returns(list) == Returned

\* after the loop: sys.exit when nothing is left, else return the list
create_list_of_messages_exit(list) ==
    IF list = <<>> THEN Exited(<<"No new messages to send.">>) ELSE Returned

----------------------------------------------------------------------------
(* Steps of a running call *)

BuildIdle ==
    /\ pc = "idle"
    /\ entry = ""
    /\ query_result = <<>>
    /\ re_run_interval = PyNone
    /\ func_checked_recently = RealFilter
    /\ filter_results = <<>>
    /\ list_of_messages = <<>>
    /\ outcome = Running
    /\ response_json = NoResponse
    /\ sent = <<>>
    /\ log_records = <<>>
    /\ previous = ""
    /\ clock_moved = FALSE

\* the invocations of the trigger that can overlap: the one the host runs
\* at startup (run_on_startup=True) and the one of the hourly schedule
Invocations == {"startup", "schedule"}

Invocation(p, now, list, n, out) ==
    [pc |-> p, now |-> now, list_of_messages |-> list, sent |-> n, outcome |-> out]

\* no invocation was started
OverlapIdle ==
    /\ store = <<>>
    /\ invocation = [i \in Invocations |-> Invocation("idle", 0, <<>>, 0, Running)]
    /\ servicebus_queue = <<>>

\* no function of the queue modules is called directly
QueueIdle ==
    /\ message_str = <<>>
    /\ delay_multiplier = 0
    /\ list_of_service_bus_messages = <<>>
    /\ batch_message = <<>>

\* the clock moves on
Tick ==
    /\ utc_now < MaxTime
    /\ utc_now' = utc_now + 1
    /\ clock_moved' = TRUE
    /\ UNCHANGED <<logger_vars, overlap_vars, queue_vars, previous, filter_vars, build_vars, pipe_vars>>

\* for item in query_result: ...
LoopRecord ==
    /\ pc = "build"
    /\ entry \in {"create_list_of_messages", "get"}
    /\ Len(filter_results) < Len(query_result)
    /\ LET p == create_list_of_messages_loop(query_result[Len(filter_results) + 1],
                    func_checked_recently, re_run_interval, utc_now, list_of_messages)
       IN /\ filter_results' = filter_results \o p.fr
          /\ list_of_messages' = p.list
          /\ outcome' = p.out
          /\ pc' = IF p.out = Running THEN "build" ELSE "done"
          /\ log_records' = IF p.out.exc = "TypeError"
                            THEN Append(log_records, Log("ERROR", "TypeError"))
                            ELSE log_records
    /\ UNCHANGED <<queue_vars, cycle_vars, utc_now, logger_vars, overlap_vars, filter_vars, entry, query_result, re_run_interval,
                   func_checked_recently, response_json, sent>>

\* the loop has run out of records
LoopEnd ==
    /\ pc = "build"
    /\ entry \in {"create_list_of_messages", "get"}
    /\ Len(filter_results) = Len(query_result)
    /\ outcome' = create_list_of_messages_exit(list_of_messages)
    /\ pc' = "done"
    /\ UNCHANGED <<queue_vars, cycle_vars, utc_now, logger_vars, overlap_vars, filter_vars, entry, query_result, re_run_interval,
                   func_checked_recently, filter_results, list_of_messages, pipe_vars>>

----------------------------------------------------------------------------
(* Specification of direct calls of list_of_clients.create_list_of_messages *)

InitBuilder ==
    /\ utc_now \in Times
    /\ datetime_string = PyNone
    /\ target_timedelta = PyNone
    /\ result = NotCalled
    /\ pc = "build"
    /\ entry = "create_list_of_messages"
    /\ query_result \in SeqsUpTo(CallerItems, MaxRecords)
    /\ re_run_interval = Timedelta(RE_RUN_INTERVAL_HOURS)
    /\ func_checked_recently \in Filters
    /\ filter_results = <<>>
    /\ list_of_messages = <<>>
    /\ outcome = Running
    /\ response_json = NoResponse
    /\ sent = <<>>
    /\ log_records = <<>>
    /\ QueueIdle
    /\ LoggerLoaded
    /\ OverlapIdle
    /\ previous = ""
    /\ clock_moved = FALSE

NextBuilder == Tick \/ LoopRecord \/ LoopEnd

SpecBuilder == InitBuilder /\ [][NextBuilder]_vars

----------------------------------------------------------------------------
(* Specification of direct calls of checked_recently *)

InitFilter ==
    /\ utc_now \in Times
    /\ datetime_string \in DatetimeStrings
    /\ target_timedelta \in Windows
    /\ result = NotCalled
    /\ BuildIdle
    /\ QueueIdle
    /\ LoggerLoaded
    /\ OverlapIdle

CallCheckedRecently ==
    /\ result = NotCalled
    /\ result' = checked_recently(datetime_string, target_timedelta, utc_now)
    /\ UNCHANGED <<queue_vars, cycle_vars, utc_now, logger_vars, overlap_vars, datetime_string, target_timedelta, build_vars, pipe_vars>>

NextFilter == CallCheckedRecently

SpecFilter == InitFilter /\ [][NextFilter]_vars

----------------------------------------------------------------------------
(* validate_response_from_storage_table_connector with the default         *)
(* mandatory keys: Running when the response passes, else the error.       *)

MissingKey(key) ==
    Raised("RuntimeError", <<"Key ", key, " missing in response from storage_table_connector.">>)

\* faulty variant: the empty result is looked at before the error field
validate_response_empty_first(r) ==
    IF "error" \notin r.keys THEN MissingKey("error")
    ELSE IF "query_result" \notin r.keys THEN MissingKey("query_result")
    ELSE IF Len(r.query_result) = 0
    THEN Raised("RuntimeError", <<"No records found in ClientsConfig table.">>)
    ELSE IF ~r.error.isnull
    THEN IF "error" \notin r.error.keys THEN Raised("KeyError", <<"error">>)
         ELSE IF "message" \notin r.error.keys THEN Raised("KeyError", <<"message">>)
         ELSE Raised("RuntimeError", <<r.error.error, ": ", r.error.message, ".">>)
    ELSE Running

\* faulty variant: the error field is looked at before the keys are checked
validate_response_error_first(r) ==
    IF "error" \in r.keys /\ ~r.error.isnull
    THEN IF "error" \notin r.error.keys THEN Raised("KeyError", <<"error">>)
         ELSE IF "message" \notin r.error.keys THEN Raised("KeyError", <<"message">>)
         ELSE Raised("RuntimeError", <<r.error.error, ": ", r.error.message, ".">>)
    ELSE IF "error" \notin r.keys THEN MissingKey("error")
    ELSE IF "query_result" \notin r.keys THEN MissingKey("query_result")
    ELSE IF Len(r.query_result) = 0
    THEN Raised("RuntimeError", <<"No records found in ClientsConfig table.">>)
    ELSE Running

\* faulty variant: an empty query_result passes the validation
validate_response_accepts_empty(r) ==
    IF "error" \notin r.keys THEN MissingKey("error")
    ELSE IF "query_result" \notin r.keys THEN MissingKey("query_result")
    ELSE IF ~r.error.isnull
    THEN IF "error" \notin r.error.keys THEN Raised("KeyError", <<"error">>)
         ELSE IF "message" \notin r.error.keys THEN Raised("KeyError", <<"message">>)
         ELSE Raised("RuntimeError", <<r.error.error, ": ", r.error.message, ".">>)
    ELSE Running

validate_response_from_storage_table_connector(r) ==
    IF "error" \notin r.keys THEN MissingKey("error")
    ELSE IF "query_result" \notin r.keys THEN MissingKey("query_result")
    ELSE IF ~r.error.isnull
    THEN IF "error" \notin r.error.keys THEN Raised("KeyError", <<"error">>)
         ELSE IF "message" \notin r.error.keys THEN Raised("KeyError", <<"message">>)
         ELSE Raised("RuntimeError", <<r.error.error, ": ", r.error.message, ".">>)
    ELSE IF Len(r.query_result) = 0
    THEN Raised("RuntimeError", <<"No records found in ClientsConfig table.">>)
    ELSE Running

\* timer_trigger.main after the query: only the error field is looked at
timer_trigger_main_check(r) ==
    IF "error" \notin r.keys THEN Raised("KeyError", <<"error">>)
    ELSE IF ~r.error.isnull THEN Raised("ValueError", <<"Error: ", r.error.error, ".">>)
    ELSE IF "query_result" \notin r.keys THEN Raised("KeyError", <<"query_result">>)
    ELSE Running

\* timer_trigger.checked_recently
timer_trigger_checked_recently(ds, td, now) ==
    LET last_successful_run == fromisoformat(ds) IN
    IF ~last_successful_run.ok
    THEN IF last_successful_run.exc = "ValueError" THEN Return(FALSE) ELSE Raise("TypeError")
    ELSE IF ~last_successful_run.aware THEN Raise("TypeError")
    ELSE IF td.ty # "timedelta" THEN Raise("TypeError")
    ELSE Return((now - UtcInstant(last_successful_run)) < td.t)

\* faulty variant: a record the filter cannot read is passed over
timer_trigger_create_list_of_messages_loop_skip_bad(item, td, now, list) ==
    IF item.last_successfull_download_run = Absent
    THEN Pass(<<>>, list, Raised("KeyError", <<"last_successfull_download_run">>))
    ELSE LET r == timer_trigger_checked_recently(item.last_successfull_download_run, td, now) IN
         IF r.kind = "raise" THEN Pass(<<r>>, list, Running)
         ELSE IF r.val # FALSE THEN Pass(<<r>>, list, Running)
         ELSE Pass(<<r>>, Append(list, json_dumps(build_message(item))), Running)

\* one pass of the loop of timer_trigger.create_list_of_messages
timer_trigger_create_list_of_messages_loop(item, td, now, list) ==
    IF item.last_successfull_download_run = Absent
    THEN Pass(<<>>, list, Raised("KeyError", <<"last_successfull_download_run">>))
    ELSE LET r == timer_trigger_checked_recently(item.last_successfull_download_run, td, now) IN
         IF r.kind = "raise" THEN Pass(<<r>>, list, Raised(r.exc, <<>>))
         ELSE IF r.val # FALSE THEN Pass(<<r>>, list, Running)
         ELSE IF item.PartitionKey = Absent
         THEN Pass(<<r>>, list, Raised("KeyError", <<"PartitionKey">>))
         ELSE IF item.penultimate_successfull_download_run = Absent
         THEN Pass(<<r>>, list, Raised("KeyError", <<"penultimate_successfull_download_run">>))
         ELSE IF \E e \in 1..Len(build_message(item)) :
                    \E k \in 1..Len(build_message(item)[e].items) :
                        ~Serializable(build_message(item)[e].items[k])
         THEN Pass(<<r>>, list, Raised("TypeError", <<>>))
         ELSE Pass(<<r>>, Append(list, json_dumps(build_message(item))), Running)

\* faulty variant: the trigger says nothing when there is nothing to send
timer_trigger_api_announce_silent(list) ==
    IF Len(list) = 0 THEN <<>>
    ELSE <<Log("INFO", "Sending messages to queue.")>>

\* function_app.timer_trigger_api, what is logged once the list is there
timer_trigger_api_announce(list) ==
    IF Len(list) = 0 THEN <<Log("INFO", "No messages to send.")>>
    ELSE <<Log("INFO", "Sending messages to queue.")>>

----------------------------------------------------------------------------
(* The pipelines: list_of_clients.get, and function_app.timer_trigger_api  *)
(* (timer_trigger.main, then send_msg_to_queue.main per message).          *)

Init ==
    /\ utc_now = 0
    /\ datetime_string = PyNone
    /\ target_timedelta = PyNone
    /\ result = NotCalled
    /\ BuildIdle
    /\ QueueIdle
    /\ LoggerLoaded
    /\ OverlapIdle

\* faulty variant: the list of messages outlives the call that built it
Start_keeps_list(e, logged) ==
    /\ pc \in {"idle", "done"}
    /\ pc' = "query"
    /\ entry' = e
    /\ query_result' = <<>>
    /\ re_run_interval' = Timedelta(RE_RUN_INTERVAL_HOURS)
    /\ func_checked_recently' = RealFilter
    /\ filter_results' = <<>>
    /\ list_of_messages' = list_of_messages
    /\ outcome' = Running
    /\ response_json' = NoResponse
    /\ sent' = <<>>
    /\ log_records' = logged
    /\ previous' = (IF pc = "done" THEN outcome.kind ELSE previous)
    /\ clock_moved' = FALSE
    /\ delay_multiplier' = DELAY_MULTIPLIER
    /\ list_of_service_bus_messages' = <<>>
    /\ batch_message' = <<>>
    /\ UNCHANGED <<message_str, utc_now, logger_vars, overlap_vars, filter_vars>>

\* the locals of a call that starts
Start(e, logged) ==
    /\ pc \in {"idle", "done"}
    /\ pc' = "query"
    /\ entry' = e
    /\ query_result' = <<>>
    /\ re_run_interval' = Timedelta(RE_RUN_INTERVAL_HOURS)
    /\ func_checked_recently' = RealFilter
    /\ filter_results' = <<>>
    /\ list_of_messages' = <<>>
    /\ outcome' = Running
    /\ response_json' = NoResponse
    /\ sent' = <<>>
    /\ log_records' = logged
    /\ previous' = (IF pc = "done" THEN outcome.kind ELSE previous)
    /\ clock_moved' = FALSE
    /\ delay_multiplier' = DELAY_MULTIPLIER
    /\ list_of_service_bus_messages' = <<>>
    /\ batch_message' = <<>>
    /\ UNCHANGED <<message_str, utc_now, logger_vars, overlap_vars, filter_vars>>

\* a caller calls list_of_clients.get with the default arguments
Get == Start("get", <<>>)

\* the schedule fires function_app.timer_trigger_api
TimerTriggerApi == Start("timer_trigger_api", <<Log("INFO", "Timer trigger started.")>>)

\* query_clients_config_table: requests.post and response.json()
QueryAnswered ==
    /\ pc = "query"
    /\ \E r \in Responses : response_json' = r
    /\ pc' = "validate"
    /\ UNCHANGED <<queue_vars, cycle_vars, utc_now, logger_vars, overlap_vars, filter_vars, entry, query_result, re_run_interval,
                   func_checked_recently, filter_results, list_of_messages, outcome,
                   sent, log_records>>

\* requests.post times out or fails, or the body is no JSON
QueryFailed ==
    /\ pc = "query"
    /\ \E e \in {"Timeout", "ConnectionError", "JSONDecodeError"} :
          /\ outcome' = Raised(e, <<>>)
          /\ log_records' = IF e = "JSONDecodeError"
                            THEN Append(log_records, Log("ERROR", "JSONDecodeError"))
                            ELSE log_records
    /\ pc' = "done"
    /\ UNCHANGED <<queue_vars, cycle_vars, utc_now, logger_vars, overlap_vars, filter_vars, entry, query_result, re_run_interval,
                   func_checked_recently, filter_results, list_of_messages,
                   response_json, sent>>

\* get: validate_response_from_storage_table_connector(response_json)
GetValidate ==
    /\ pc = "validate"
    /\ entry = "get"
    /\ LET v == validate_response_from_storage_table_connector(response_json) IN
       /\ outcome' = v
       /\ pc' = IF v = Running THEN "build" ELSE "done"
       /\ query_result' = IF v = Running THEN response_json.query_result ELSE query_result
       /\ log_records' = IF response_json.keys = {"error", "query_result"}
                            /\ ~response_json.error.isnull
                         THEN Append(log_records, Log("ERROR", "Error while querying ClientsConfig"))
                         ELSE log_records
    /\ UNCHANGED <<queue_vars, cycle_vars, utc_now, logger_vars, overlap_vars, filter_vars, entry, re_run_interval, func_checked_recently,
                   filter_results, list_of_messages, response_json, sent>>

\* timer_trigger.main: the error check of lines 153-155
TriggerCheck ==
    /\ pc = "validate"
    /\ entry = "timer_trigger_api"
    /\ LET v == timer_trigger_main_check(response_json) IN
       /\ outcome' = v
       /\ pc' = IF v = Running THEN "build" ELSE "done"
       /\ query_result' = IF v = Running THEN response_json.query_result ELSE query_result
       /\ log_records' = IF v.exc = "ValueError"
                         THEN Append(log_records, Log("ERROR", "Error while querying ClientsConfig"))
                         ELSE log_records
    /\ UNCHANGED <<queue_vars, cycle_vars, utc_now, logger_vars, overlap_vars, filter_vars, entry, re_run_interval, func_checked_recently,
                   filter_results, list_of_messages, response_json, sent>>

\* timer_trigger.create_list_of_messages: for item in query_result
TriggerLoopRecord ==
    /\ pc = "build"
    /\ entry = "timer_trigger_api"
    /\ Len(filter_results) < Len(query_result)
    /\ LET p == timer_trigger_create_list_of_messages_loop(
                    query_result[Len(filter_results) + 1], re_run_interval, utc_now,
                    list_of_messages)
       IN /\ filter_results' = filter_results \o p.fr
          /\ list_of_messages' = p.list
          /\ outcome' = p.out
          /\ pc' = IF p.out = Running THEN "build" ELSE "done"
          /\ log_records' = IF p.out.exc = "TypeError"
                            THEN Append(log_records, Log("ERROR", "TypeError"))
                            ELSE log_records
    /\ UNCHANGED <<queue_vars, cycle_vars, utc_now, logger_vars, overlap_vars, filter_vars, entry, query_result, re_run_interval,
                   func_checked_recently, response_json, sent>>

\* the list comes back to timer_trigger_api, which announces what it will do
TriggerAnnounce ==
    /\ pc = "build"
    /\ entry = "timer_trigger_api"
    /\ Len(filter_results) = Len(query_result)
    /\ log_records' = log_records \o timer_trigger_api_announce(list_of_messages)
    /\ pc' = "send"
    /\ UNCHANGED <<queue_vars, cycle_vars, utc_now, logger_vars, overlap_vars, filter_vars, entry, query_result, re_run_interval,
                   func_checked_recently, filter_results, list_of_messages, outcome,
                   response_json, sent>>

\* faulty variant: the list is walked from its end
timer_trigger_api_dispatch_reversed(list, queue) ==
    Append(queue, list[Len(list) - Len(queue)])

\* for message in list_of_messages: the next message goes to the queue
timer_trigger_api_dispatch(list, queue) ==
    Append(queue, list[Len(queue) + 1])

\* send_msg_to_queue.main for the next message: schedule_messages succeeds
SendMessage ==
    /\ pc = "send"
    /\ Len(sent) < Len(list_of_messages)
    /\ sent' = timer_trigger_api_dispatch(list_of_messages, sent)
    /\ log_records' = Append(log_records, Log("INFO", "Message sent successfully."))
    /\ UNCHANGED <<queue_vars, cycle_vars, utc_now, logger_vars, overlap_vars, filter_vars, build_vars, response_json>>

\* send_msg_to_queue.main for the next message: the Service Bus call fails
SendFailed ==
    /\ pc = "send"
    /\ Len(sent) < Len(list_of_messages)
    /\ outcome' = Raised("ServiceBusError", <<>>)
    /\ pc' = "done"
    /\ UNCHANGED <<queue_vars, cycle_vars, utc_now, logger_vars, overlap_vars, filter_vars, entry, query_result, re_run_interval,
                   func_checked_recently, filter_results, list_of_messages, pipe_vars>>

\* the loop over list_of_messages is over: timer_trigger_api returns None
TriggerReturn ==
    /\ pc = "send"
    /\ Len(sent) = Len(list_of_messages)
    /\ outcome' = Returned
    /\ pc' = "done"
    /\ UNCHANGED <<queue_vars, cycle_vars, utc_now, logger_vars, overlap_vars, filter_vars, entry, query_result, re_run_interval,
                   func_checked_recently, filter_results, list_of_messages, pipe_vars>>

Next ==
    \/ Tick
    \/ Get
    \/ TimerTriggerApi
    \/ QueryAnswered
    \/ QueryFailed
    \/ GetValidate
    \/ LoopRecord
    \/ LoopEnd
    \/ TriggerCheck
    \/ TriggerLoopRecord
    \/ TriggerAnnounce
    \/ SendMessage
    \/ SendFailed
    \/ TriggerReturn

Spec == Init /\ [][Next]_vars

----------------------------------------------------------------------------
(* The queue modules: the iteration of a message and its scheduled time.   *)
(* A message text is JSON (keys and texts in double quotes, null) or the   *)
(* text of a Python dict (single quotes, None).  Times of delivery are     *)
(* counted in minutes.                                                     *)

\* the text str(dict) writes for the dict whose JSON text is given
python_literal(text) ==
    [i \in 1..Len(text) |->
        IF text[i].k = "string" THEN Tok("sqstring", text[i].v)
        ELSE IF text[i].k = "null" THEN Punct("None")
        ELSE text[i]]

JsonTokens == {"{", "}", ":", ",", "[", "]", "string", "number", "null"}
LiteralTokens == {"{", "}", ":", ",", "[", "]", "string", "sqstring", "number", "None"}

\* the text is one whole value: a single scalar, or braces that close
WholeValue(text) ==
    /\ text # <<>>
    /\ IF text[1].k = "{" THEN Len(text) >= 2 /\ text[Len(text)].k = "}"
       ELSE Len(text) = 1

Parsed(isdict, obj) == [ok |-> TRUE, exc |-> "", isdict |-> isdict, obj |-> obj]
ParseError(e) == [ok |-> FALSE, exc |-> e, isdict |-> FALSE, obj |-> <<>>]

\* json.loads(s): JSONDecodeError, a ValueError, for a text that is no JSON
try_json_loads(text) ==
    IF ~WholeValue(text) \/ \E i \in 1..Len(text) : text[i].k \notin JsonTokens
    THEN ParseError("ValueError")
    ELSE IF text[1].k = "{" THEN Parsed(TRUE, json_loads(text))
    ELSE Parsed(FALSE, <<Scalar("", json_loads_value(text[1]))>>)

ast_literal_eval_value(tok) == IF tok.k = "None" THEN PyNone ELSE tok.v

RECURSIVE ast_literal_eval_items(_, _, _)
ast_literal_eval_items(text, i, acc) ==
    IF text[i].k = "]" THEN [items |-> acc, next |-> i + 1]
    ELSE IF text[i].k = "," THEN ast_literal_eval_items(text, i + 1, acc)
    ELSE ast_literal_eval_items(text, i + 1, Append(acc, ast_literal_eval_value(text[i])))

RECURSIVE ast_literal_eval_entries(_, _, _)
ast_literal_eval_entries(text, i, acc) ==
    IF text[i].k = "}" THEN acc
    ELSE IF text[i].k = "," THEN ast_literal_eval_entries(text, i + 1, acc)
    ELSE LET key == text[i].v.s IN
         IF text[i + 2].k = "["
         THEN LET r == ast_literal_eval_items(text, i + 3, <<>>)
              IN ast_literal_eval_entries(text, r.next, Append(acc, List(key, r.items)))
         ELSE ast_literal_eval_entries(text, i + 3,
                  Append(acc, Scalar(key, ast_literal_eval_value(text[i + 2]))))

\* ast.literal_eval(node_or_string): SyntaxError for a text that is no
\* expression, ValueError for a name that is no Python literal (null, a word)
ast_literal_eval(text) ==
    IF ~WholeValue(text) THEN ParseError("SyntaxError")
    ELSE IF \E i \in 1..Len(text) : text[i].k \notin LiteralTokens
    THEN ParseError("ValueError")
    ELSE IF text[1].k = "{" THEN Parsed(TRUE, ast_literal_eval_entries(text, 2, <<>>))
    ELSE Parsed(FALSE, <<Scalar("", ast_literal_eval_value(text[1]))>>)

\* value[key] of a parsed value: TypeError when it is no dict (int, None) or
\* the key is no index of it (str), KeyError when the dict lacks the key
Subscript(value, key) ==
    IF ~value.isdict THEN Raise("TypeError")
    ELSE IF \A i \in 1..Len(value.obj) : value.obj[i].key # key THEN Raise("KeyError")
    ELSE LET e == value.obj[CHOOSE i \in 1..Len(value.obj) : value.obj[i].key = key]
         IN Return(IF e.islist THEN PyObject ELSE e.items[1])

\* send_msg_to_queue.get_iteration_int: json.loads(...)["iteration"]; on
\* ValueError ast.literal_eval(...)["iteration"], whose every Exception is
\* raised again as ValueError
get_iteration_int(message_json) ==
    LET parsed == try_json_loads(message_json) IN
    IF parsed.ok THEN Subscript(parsed, "iteration")
    ELSE LET literal == ast_literal_eval(message_json) IN
         IF ~literal.ok THEN Raise("ValueError")
         ELSE IF Subscript(literal, "iteration").kind = "raise" THEN Raise("ValueError")
         ELSE Subscript(literal, "iteration")

\* faulty variant: the first attempt counts as one
calculate_delay_minutes_from_one(iteration, multiplier) == (iteration + 1) * multiplier

\* send_msg_to_queue.calculate_delay_minutes
calculate_delay_minutes(iteration, multiplier) == iteration * multiplier

\* send_msg_to_queue.setup_message_delay: utcnow() + timedelta(minutes=...)
setup_message_delay(delay_minutes, now) == now * MINUTES_PER_HOUR + delay_minutes

\* send_msg_to_queue.main up to the scheduled time: an iteration that is no
\* int makes timedelta(minutes=...) or the product raise TypeError
main_scheduled_time_utc(message_json, multiplier, now) ==
    LET iteration == get_iteration_int(message_json) IN
    IF iteration.kind = "raise" THEN iteration
    ELSE IF iteration.val.ty # "int" THEN Raise("TypeError")
    ELSE Return(setup_message_delay(calculate_delay_minutes(iteration.val.t, multiplier), now))

\* faulty variant: the delay is iteration + delay_multiplier minutes
get_scheduled_enqueue_time_utc_sum(text, multiplier, now) ==
    LET parsed == try_json_loads(text)
        literal == ast_literal_eval(text)
        iteration == IF parsed.ok THEN Subscript(parsed, "iteration")
                     ELSE IF ~literal.ok THEN Raise(literal.exc)
                     ELSE Subscript(literal, "iteration")
    IN IF iteration.kind = "raise" THEN iteration
       ELSE IF iteration.val.ty # "int" THEN Raise("TypeError")
       ELSE Return(now * MINUTES_PER_HOUR + iteration.val.t + multiplier)

\* messages_to_queue.get_scheduled_enqueue_time_utc: the second parse is not
\* guarded, so what ast.literal_eval or the subscript raises goes out as it is
get_scheduled_enqueue_time_utc(text, multiplier, now) ==
    LET parsed == try_json_loads(text)
        literal == ast_literal_eval(text)
        iteration == IF parsed.ok THEN Subscript(parsed, "iteration")
                     ELSE IF ~literal.ok THEN Raise(literal.exc)
                     ELSE Subscript(literal, "iteration")
    IN IF iteration.kind = "raise" THEN iteration
       ELSE IF iteration.val.ty # "int" THEN Raise("TypeError")
       ELSE Return(now * MINUTES_PER_HOUR + iteration.val.t * multiplier)

Iterations == 0..MaxIteration
Multipliers == 0..MaxMultiplier

\* the dict of the tests of get_iteration_int, with iteration i
TestMessage(i) ==
    << Scalar("NIP", PyStr("1111111111")), Scalar("iteration", PyInt(i)),
       Scalar("reason", PyNone) >>
TestMessageNoIteration ==
    << Scalar("NIP", PyStr("1111111111")), Scalar("reason", PyNone) >>

JsonTexts == {json_dumps(TestMessage(i)) : i \in Iterations}
LiteralTexts == {python_literal(t) : t \in JsonTexts}
\* as built by the pipeline: iteration 0, with a list and nulls
BuiltTexts == {json_dumps(build_message(Item(PyStr("1111111111"), PyNone, PyNone)))}
NoIterationTexts ==
    {json_dumps(TestMessageNoIteration), python_literal(json_dumps(TestMessageNoIteration))}
OddIterationTexts ==
    { json_dumps(<<Scalar("iteration", PyStr("1"))>>),
      json_dumps(<<Scalar("iteration", PyNone)>>),
      python_literal(json_dumps(<<Scalar("iteration", PyNone)>>)) }
UnparsableTexts ==
    { <<Tok("word", PyStr("invalid"))>>,                       \* invalid
      <<Punct("{")>>,                                          \* {
      <<>>,                                                    \* the empty text
      <<Punct("{"), Tok("sqstring", PyStr("iteration")), Punct(":"),
        Tok("number", PyInt(1)), Punct(","), Tok("sqstring", PyStr("reason")),
        Punct(":"), Punct("null"), Punct("}")>> }              \* {'iteration': 1, 'reason': null}
NotDictTexts == { <<Tok("number", PyInt(1))>>, <<Punct("null")>>, <<Punct("None")>> }
MessageTexts ==
    JsonTexts \cup LiteralTexts \cup BuiltTexts \cup NoIterationTexts
        \cup OddIterationTexts \cup UnparsableTexts \cup NotDictTexts

----------------------------------------------------------------------------
(* Specification of direct calls of the functions of the queue modules *)

InitQueue ==
    /\ utc_now \in Times
    /\ datetime_string = PyNone
    /\ target_timedelta = PyNone
    /\ result = NotCalled
    /\ BuildIdle
    /\ message_str \in MessageTexts
    /\ delay_multiplier \in Multipliers
    /\ list_of_service_bus_messages = <<>>
    /\ batch_message = <<>>
    /\ LoggerLoaded
    /\ OverlapIdle

CallGetIterationInt ==
    /\ result = NotCalled
    /\ entry' = "get_iteration_int"
    /\ result' = get_iteration_int(message_str)
    /\ UNCHANGED <<utc_now, logger_vars, overlap_vars, datetime_string, target_timedelta, pc, query_result,
                   re_run_interval, func_checked_recently, filter_results,
                   list_of_messages, outcome, pipe_vars, queue_vars, cycle_vars>>

CallGetScheduledEnqueueTimeUtc ==
    /\ result = NotCalled
    /\ entry' = "get_scheduled_enqueue_time_utc"
    /\ result' = get_scheduled_enqueue_time_utc(message_str, delay_multiplier, utc_now)
    /\ UNCHANGED <<utc_now, logger_vars, overlap_vars, datetime_string, target_timedelta, pc, query_result,
                   re_run_interval, func_checked_recently, filter_results,
                   list_of_messages, outcome, pipe_vars, queue_vars, cycle_vars>>

\* send_msg_to_queue.main, lines 166-172
CallMainScheduledTimeUtc ==
    /\ result = NotCalled
    /\ entry' = "send_msg_to_queue.main"
    /\ result' = main_scheduled_time_utc(message_str, delay_multiplier, utc_now)
    /\ UNCHANGED <<utc_now, logger_vars, overlap_vars, datetime_string, target_timedelta, pc, query_result,
                   re_run_interval, func_checked_recently, filter_results,
                   list_of_messages, outcome, pipe_vars, queue_vars, cycle_vars>>

NextQueue ==
    \/ CallGetIterationInt
    \/ CallGetScheduledEnqueueTimeUtc
    \/ CallMainScheduledTimeUtc

SpecQueue == InitQueue /\ [][NextQueue]_vars

----------------------------------------------------------------------------
(* messages_to_queue.send: the batch sender.  Its timeout argument is put  *)
(* on each ServiceBusMessage; send_messages is called without one.         *)

ServiceBusMessage(body, scheduled_enqueue_time_utc) ==
    [body |-> body, scheduled_enqueue_time_utc |-> scheduled_enqueue_time_utc]

\* build_list_of_service_bus_messages: one ServiceBusMessage per message, in
\* order; the first message whose scheduled time cannot be had ends the loop
RECURSIVE build_list_of_service_bus_messages(_, _, _, _)
build_list_of_service_bus_messages(list, multiplier, now, acc) ==
    IF list = <<>> THEN [out |-> Running, messages |-> acc]
    ELSE LET scheduled == get_scheduled_enqueue_time_utc(Head(list), multiplier, now) IN
         IF scheduled.kind = "raise"
         THEN [out |-> Raised(scheduled.exc, <<>>), messages |-> acc]
         ELSE build_list_of_service_bus_messages(Tail(list), multiplier, now,
                  Append(acc, ServiceBusMessage(Head(list), scheduled.val)))

\* faulty variant: each ServiceBusMessage is put in front of the batch
RECURSIVE build_batch_message_reversed(_, _)
build_batch_message_reversed(messages, batch) ==
    IF messages = <<>> THEN batch
    ELSE build_batch_message_reversed(Tail(messages), <<Head(messages)>> \o batch)

\* build_batch_message: every ServiceBusMessage is added to one batch
RECURSIVE build_batch_message(_, _)
build_batch_message(messages, batch) ==
    IF messages = <<>> THEN batch
    ELSE build_batch_message(Tail(messages), Append(batch, Head(messages)))

\* message lists a caller hands to send
BatchTexts ==
    { python_literal(json_dumps(TestMessage(MaxIteration))),
      json_dumps(build_message(Item(PyStr("1111111111"), PyNone, PyNone))),
      <<Tok("word", PyStr("invalid"))>> }

\* a caller calls messages_to_queue.send
Send ==
    /\ pc \in {"idle", "done"}
    /\ pc' = "build_list"
    /\ entry' = "send"
    /\ \E list \in SeqsUpTo(BatchTexts, MaxRecords) : list_of_messages' = list
    /\ \E m \in Multipliers : delay_multiplier' = m
    /\ query_result' = <<>>
    /\ re_run_interval' = PyNone
    /\ func_checked_recently' = RealFilter
    /\ filter_results' = <<>>
    /\ outcome' = Running
    /\ response_json' = NoResponse
    /\ sent' = <<>>
    /\ log_records' = <<>>
    /\ list_of_service_bus_messages' = <<>>
    /\ batch_message' = <<>>
    /\ previous' = (IF pc = "done" THEN outcome.kind ELSE previous)
    /\ clock_moved' = FALSE
    /\ UNCHANGED <<message_str, utc_now, logger_vars, overlap_vars, filter_vars>>

\* send, lines 88-93
BuildListOfServiceBusMessages ==
    /\ pc = "build_list"
    /\ LET b == build_list_of_service_bus_messages(list_of_messages, delay_multiplier,
                                                   utc_now, <<>>)
       IN /\ outcome' = b.out
          /\ pc' = IF b.out = Running THEN "build_batch" ELSE "done"
          /\ list_of_service_bus_messages' = b.messages
          /\ log_records' = IF b.out = Running
                            THEN Append(log_records, Log("INFO", "Built a list of messages."))
                            ELSE log_records
    /\ UNCHANGED <<utc_now, logger_vars, overlap_vars, filter_vars, entry, query_result, re_run_interval,
                   func_checked_recently, filter_results, list_of_messages,
                   response_json, sent, message_str, delay_multiplier, batch_message,
                   cycle_vars>>

\* send, lines 95-98
BuildBatchMessage ==
    /\ pc = "build_batch"
    /\ batch_message' = build_batch_message(list_of_service_bus_messages, <<>>)
    /\ log_records' = Append(log_records, Log("INFO", "Built a batch message."))
    /\ pc' = "send_messages"
    /\ UNCHANGED <<utc_now, logger_vars, overlap_vars, filter_vars, entry, query_result, re_run_interval,
                   func_checked_recently, filter_results, list_of_messages, outcome,
                   response_json, sent, message_str, delay_multiplier,
                   list_of_service_bus_messages, cycle_vars>>

\* servicebus_sender.send_messages(message=batch_message): the Service Bus
\* takes the batch
SendMessagesAccepted ==
    /\ pc = "send_messages"
    /\ sent' = [i \in 1..Len(batch_message) |-> batch_message[i].body]
    /\ log_records' = Append(log_records, Log("INFO", "Sent messages to queue."))
    /\ outcome' = Returned
    /\ pc' = "done"
    /\ UNCHANGED <<utc_now, logger_vars, overlap_vars, filter_vars, entry, query_result, re_run_interval,
                   func_checked_recently, filter_results, list_of_messages,
                   response_json, queue_vars, cycle_vars>>

\* servicebus_sender.send_messages(message=batch_message): the Service Bus
\* answers with an error
SendMessagesFailed ==
    /\ pc = "send_messages"
    /\ outcome' = Raised("ServiceBusError", <<>>)
    /\ pc' = "done"
    /\ UNCHANGED <<utc_now, logger_vars, overlap_vars, filter_vars, entry, query_result, re_run_interval,
                   func_checked_recently, filter_results, list_of_messages,
                   pipe_vars, queue_vars, cycle_vars>>

\* the batch sender alone, called again and again while the clock moves
NextBatch ==
    \/ Tick
    \/ Send
    \/ BuildListOfServiceBusMessages
    \/ BuildBatchMessage
    \/ SendMessagesAccepted
    \/ SendMessagesFailed

SpecBatch == Init /\ [][NextBatch]_vars

\* the two senders side by side: invocations of the deployed trigger and
\* calls of the batch sender, all within one hour of the clock, whichever
InitDispatch ==
    /\ utc_now \in Times
    /\ datetime_string = PyNone
    /\ target_timedelta = PyNone
    /\ result = NotCalled
    /\ BuildIdle
    /\ QueueIdle
    /\ LoggerLoaded
    /\ OverlapIdle

NextDispatch ==
    \/ TimerTriggerApi
    \/ QueryAnswered
    \/ QueryFailed
    \/ TriggerCheck
    \/ TriggerLoopRecord
    \/ TriggerAnnounce
    \/ SendMessage
    \/ SendFailed
    \/ TriggerReturn
    \/ Send
    \/ BuildListOfServiceBusMessages
    \/ BuildBatchMessage
    \/ SendMessagesAccepted
    \/ SendMessagesFailed

SpecDispatch == InitDispatch /\ [][NextDispatch]_vars

----------------------------------------------------------------------------
(* Specification of calls of the two set_up functions, in any order and    *)
(* with any arguments, from a fresh interpreter.                           *)

InitLogger ==
    /\ utc_now = 0
    /\ datetime_string = PyNone
    /\ target_timedelta = PyNone
    /\ result = NotCalled
    /\ BuildIdle
    /\ QueueIdle
    /\ LoggerFresh
    /\ OverlapIdle
    /\ root_handlers \in {<<>>, <<"host">>}

\* a caller calls logger.set_up
LoggerSetUp ==
    /\ set_up_calls < MaxCalls
    /\ \E message_format \in Formats, level_arg \in LevelArgs :
          LET l == logger_set_up(handlers, level, root_handlers, message_format,
                                 level_arg, set_up_calls + 1)
          IN /\ handlers' = l.handlers
             /\ level' = l.level
             /\ last_set_up' = SetUpCall("logger.set_up", message_format, level_arg, l.out)
    /\ set_up_calls' = set_up_calls + 1
    /\ UNCHANGED <<utc_now, root_handlers, overlap_vars, filter_vars, build_vars, pipe_vars,
                   queue_vars, cycle_vars>>

\* a caller calls custom_logger.set_up
CustomLoggerSetUp ==
    /\ set_up_calls < MaxCalls
    /\ \E message_format \in Formats, level_string \in LevelStrings :
          LET l == custom_logger_set_up(handlers, level, root_handlers, message_format,
                                        level_string, set_up_calls + 1)
          IN /\ handlers' = l.handlers
             /\ level' = l.level
             /\ last_set_up' = SetUpCall("custom_logger.set_up", message_format,
                                         level_string, l.out)
    /\ set_up_calls' = set_up_calls + 1
    /\ UNCHANGED <<utc_now, root_handlers, overlap_vars, filter_vars, build_vars, pipe_vars,
                   queue_vars, cycle_vars>>

NextLogger == LoggerSetUp \/ CustomLoggerSetUp

SpecLogger == InitLogger /\ [][NextLogger]_vars

----------------------------------------------------------------------------
(* Specification of the pipelines and the batch sender with what their     *)
(* scheduling guarantees: the program's own steps are taken, and a call    *)
(* that carries a timeout ends at the latest when the timeout runs out     *)
(* (requests.post(timeout=...), schedule_messages(timeout=...)).  Nothing  *)
(* makes send_messages, which carries no timeout, end.                     *)

NextLive ==
    \/ Next
    \/ Send
    \/ BuildListOfServiceBusMessages
    \/ BuildBatchMessage
    \/ SendMessagesAccepted
    \/ SendMessagesFailed

Fairness ==
    /\ WF_vars(QueryFailed)
    /\ WF_vars(GetValidate)
    /\ WF_vars(LoopRecord)
    /\ WF_vars(LoopEnd)
    /\ WF_vars(TriggerCheck)
    /\ WF_vars(TriggerLoopRecord)
    /\ WF_vars(TriggerAnnounce)
    /\ WF_vars(SendFailed)
    /\ WF_vars(TriggerReturn)
    /\ WF_vars(BuildListOfServiceBusMessages)
    /\ WF_vars(BuildBatchMessage)

SpecLive == Init /\ [][NextLive]_vars /\ Fairness

----------------------------------------------------------------------------
(* Properties of checked_recently (SpecFilter) *)

Called == result # NotCalled

\* hours between the instant datetime_string names and the clock
Elapsed == utc_now - (datetime_string.t - datetime_string.off)

\* C1: for an ISO-8601 timestamp carrying a UTC offset and a window that is a
\* duration, checked_recently returns true exactly when now_utc - last_checked
\* is strictly less than the window; a timestamp exactly window old gives false.
C1_StrictlyLessThanWindow ==
    (Called /\ datetime_string \in AwareStamps /\ target_timedelta \in Durations)
        => /\ result.kind = "return"
           /\ result.val = (Elapsed < target_timedelta.t)
           /\ (Elapsed = target_timedelta.t => result.val = FALSE)

C1_Witness ==
    /\ Called
    /\ datetime_string \in AwareStamps
    /\ datetime_string.off = 1
    /\ target_timedelta = Timedelta(RE_RUN_INTERVAL_HOURS)
    /\ Elapsed = RE_RUN_INTERVAL_HOURS
    /\ result = Return(FALSE)

\* C2: for last_checked None or the text "null", and every window,
\* checked_recently returns false and raises nothing.
C2_NeverCheckedReturnsFalse ==
    (Called /\ datetime_string \in {PyNone, PyStr("null")}) => result = Return(FALSE)

\* C3: for a text that is neither the sentinel nor an ISO-8601 timestamp,
\* checked_recently raises ValueError and never returns false.
C3_MalformedRaisesValueError ==
    (Called /\ datetime_string \in Malformed) => result = Raise("ValueError")

\* C4 as stated: whenever the window is no duration, checked_recently raises
\* TypeError, whatever last_checked is.
C4_NotDurationAlwaysTypeError ==
    (Called /\ target_timedelta \in NotDurations) => result = Raise("TypeError")

\* C4 as amended: when the window is no duration, checked_recently raises
\* TypeError for every last_checked that is an ISO-8601 timestamp; for the
\* sentinel text it returns false without looking at the window, and for a
\* malformed text it raises no TypeError either.
C4_NotDurationTypeErrorForTimestamps ==
    (Called /\ target_timedelta \in NotDurations)
        => /\ (datetime_string \in AwareStamps \cup NaiveStamps
                  => result = Raise("TypeError"))
           /\ (datetime_string \in Sentinels => result = Return(FALSE))
           /\ (datetime_string \in Malformed => result # Raise("TypeError"))

C4_Witness ==
    /\ Called
    /\ target_timedelta = PyStr("invalid")
    /\ datetime_string \in AwareStamps
    /\ result = Raise("TypeError")

----------------------------------------------------------------------------
(* Properties of create_list_of_messages (SpecBuilder) *)

BuilderDone == pc = "done" /\ entry = "create_list_of_messages"

\* the records for which the filter returned False, in input order
RECURSIVE Emitted(_, _)
Emitted(qr, fr) ==
    IF qr = <<>> \/ fr = <<>> THEN <<>>
    ELSE (IF Head(fr) = Return(FALSE) THEN <<Head(qr)>> ELSE <<>>)
         \o Emitted(Tail(qr), Tail(fr))

\* the filter returned a boolean for every record
FilterAnsweredAll ==
    /\ Len(filter_results) = Len(query_result)
    /\ \A i \in 1..Len(filter_results) : filter_results[i].kind = "return"

\* every field of the record is there and can be written as JSON
Writable(item) ==
    /\ Serializable(item.PartitionKey)
    /\ Serializable(item.last_successfull_download_run)
    /\ Serializable(item.penultimate_successfull_download_run)

Field(obj, key) == (CHOOSE i \in 1..Len(obj) : obj[i].key = key)

\* C5: when at least one record is eligible, the returned list holds one
\* message per record for which the filter returned false and none for a
\* record for which it returned true, in input order.
C5_OrderPreservingSubsequence ==
    BuilderDone =>
        LET E == Emitted(query_result, filter_results) IN
        /\ outcome = Returned =>
              /\ Len(list_of_messages) = Len(E)
              /\ \A k \in 1..Len(E) :
                    LET m == json_loads(list_of_messages[k]) IN
                    /\ m[Field(m, "NIP")].items = <<E[k].PartitionKey>>
                    /\ m[Field(m, "last_successful_downloads")].items
                          = <<E[k].last_successfull_download_run,
                              E[k].penultimate_successfull_download_run>>
        /\ (FilterAnsweredAll /\ E # <<>> /\ \A k \in 1..Len(E) : Writable(E[k]))
              => outcome = Returned

C5_Witness ==
    /\ BuilderDone
    /\ outcome = Returned
    /\ func_checked_recently = RealFilter
    /\ Len(query_result) = 2
    /\ Len(list_of_messages) = 2
    /\ query_result[1].PartitionKey # query_result[2].PartitionKey

\* C6: when nothing is left after filtering (empty input, or every record
\* recently checked), the call ends in SystemExit: no empty list is returned
\* and no error is raised.
C6_EmptyResultExits ==
    (BuilderDone /\ FilterAnsweredAll
        /\ \A i \in 1..Len(filter_results) : filter_results[i].val = TRUE)
        => outcome.kind = "exit"

C6_Witness ==
    /\ BuilderDone
    /\ func_checked_recently = RealFilter
    /\ Len(query_result) = 2
    /\ FilterAnsweredAll
    /\ outcome.kind = "exit"

\* C8: a record whose two timestamps are null is eligible: with
\* checked_recently as the filter, the one-record input with subject
\* 1111111111 and window 2h gives exactly one message, with
\* last_successful_downloads [null, null] and iteration 0.
C8_NullRecordIsEligible ==
    (BuilderDone
        /\ func_checked_recently = RealFilter
        /\ query_result = <<Item(PyStr("1111111111"), PyNone, PyNone)>>
        /\ re_run_interval = Timedelta(RE_RUN_INTERVAL_HOURS))
        => /\ outcome = Returned
           /\ Len(list_of_messages) = 1
           /\ LET m == json_loads(list_of_messages[1]) IN
              /\ m[Field(m, "last_successful_downloads")].items = <<PyNone, PyNone>>
              /\ m[Field(m, "iteration")].items = <<PyInt(0)>>

ExpectedMessage(item) ==
    << [key |-> "NIP", islist |-> FALSE, items |-> <<item.PartitionKey>>],
       [key |-> "last_successful_downloads", islist |-> TRUE,
        items |-> <<item.last_successfull_download_run,
                    item.penultimate_successfull_download_run>>],
       [key |-> "iteration", islist |-> FALSE, items |-> <<PyInt(0)>>],
       [key |-> "query_elem_ref_no", islist |-> FALSE, items |-> <<PyNone>>],
       [key |-> "part_elem_ref_no", islist |-> FALSE, items |-> <<PyNone>>] >>

\* C9: parsing a returned message gives the subject id of its record, the
\* pair [last, previous] of the record, iteration 0 and null reference
\* numbers, with the keys in the order NIP, last_successful_downloads,
\* iteration, query_elem_ref_no, part_elem_ref_no.
C9_ParseGivesBackMessage ==
    (BuilderDone /\ outcome = Returned) =>
        LET E == Emitted(query_result, filter_results) IN
        \A k \in 1..Len(list_of_messages) :
            /\ k <= Len(E)
            /\ json_loads(list_of_messages[k]) = ExpectedMessage(E[k])

C9_Witness ==
    /\ BuilderDone
    /\ outcome = Returned
    /\ \E k \in 1..Len(list_of_messages) :
          /\ query_result[k].last_successfull_download_run = PyNone
          /\ query_result[k].penultimate_successfull_download_run = PyNone
          /\ json_loads(list_of_messages[k]) = ExpectedMessage(query_result[k])

----------------------------------------------------------------------------
(* Properties of the pipelines (Spec) *)

\* the response was well formed and every record of it was filtered out
NoWorkCycle ==
    /\ pc = "done"
    /\ entry \in {"get", "timer_trigger_api"}
    /\ response_json.keys = {"error", "query_result"}
    /\ response_json.error.isnull
    /\ (entry = "get" => response_json.query_result # <<>>)
    /\ Len(filter_results) = Len(response_json.query_result)
    /\ \A i \in 1..Len(filter_results) : filter_results[i] = Return(TRUE)

\* the trigger handed every message it built to the queue
DispatchCycle ==
    /\ pc = "done"
    /\ entry = "timer_trigger_api"
    /\ list_of_messages # <<>>
    /\ sent = list_of_messages

Logged(levelname, msg) ==
    \E i \in 1..Len(log_records) : log_records[i] = Log(levelname, msg)

InMessage(text) == \E i \in 1..Len(outcome.msg) : outcome.msg[i] = text

\* the error field is a dict holding an error code and a message
ErrorEmbedded ==
    /\ "error" \in response_json.keys
    /\ ~response_json.error.isnull
    /\ response_json.error.keys = {"error", "message"}

\* C10 as stated: when the response carries a non-null error field, the
\* validation raises an error whose message holds the embedded code and the
\* embedded message, before any record is filtered, also when query_result
\* is empty.
C10_ErrorFieldAlwaysReported ==
    (pc = "done" /\ entry = "get" /\ ErrorEmbedded) =>
        /\ outcome.kind = "raise"
        /\ InMessage(response_json.error.error)
        /\ InMessage(response_json.error.message)
        /\ filter_results = <<>>

\* C10 as amended: when the response has both mandatory keys and carries a
\* non-null error field, the validation raises a RuntimeError whose message
\* holds the embedded code and the embedded message, before any record is
\* filtered, also when query_result is empty.
C10_ErrorFieldReportedWhenKeysPresent ==
    (pc = "done" /\ entry = "get" /\ ErrorEmbedded
        /\ "query_result" \in response_json.keys) =>
        /\ outcome.kind = "raise"
        /\ outcome.exc = "RuntimeError"
        /\ InMessage(response_json.error.error)
        /\ InMessage(response_json.error.message)
        /\ filter_results = <<>>
        /\ list_of_messages = <<>>

C10_Witness ==
    /\ pc = "done"
    /\ entry = "get"
    /\ ErrorEmbedded
    /\ response_json.keys = {"error", "query_result"}
    /\ response_json.query_result = <<>>
    /\ outcome = [kind |-> "raise", exc |-> "RuntimeError",
                  msg |-> <<"Forbidden", ": ", "denied", ".">>]

----------------------------------------------------------------------------
(* Properties of the response validation (Spec) *)

\* requests.post or response.json() raised: there is no response to validate
QueryDidFail ==
    outcome.kind = "raise" /\ outcome.exc \in {"Timeout", "ConnectionError", "JSONDecodeError"}

\* list_of_clients.get has validated the response it received
Validated == pc \in {"build", "done"} /\ entry = "get" /\ ~QueryDidFail

WellFormed ==
    /\ response_json.keys = {"error", "query_result"}
    /\ response_json.error.isnull
    /\ response_json.query_result # <<>>

\* C11: when the key error or the key query_result is missing from the
\* response, the validation raises an error that names the missing key, and
\* it does so before the error field or the records are looked at (nothing is
\* logged about the error field, nothing is filtered); a response with both
\* keys, a null error and a non-empty query_result passes.
C11_MissingKeyNamedFirst ==
    Validated =>
        /\ "error" \notin response_json.keys => outcome = MissingKey("error")
        /\ ("error" \in response_json.keys /\ "query_result" \notin response_json.keys)
              => outcome = MissingKey("query_result")
        /\ response_json.keys # {"error", "query_result"}
              => /\ filter_results = <<>>
                 /\ log_records = <<>>
        /\ WellFormed
              => /\ outcome.exc # "RuntimeError"
                 /\ query_result = response_json.query_result

C11_Witness ==
    /\ Validated
    /\ response_json.keys = {"error"}
    /\ ~response_json.error.isnull
    /\ outcome = MissingKey("query_result")

\* C12: when error is null and query_result is empty, the validation raises
\* the RuntimeError "No records found in ClientsConfig table." before any
\* record is filtered; the SystemExit of the builder is a different outcome
\* and comes only after every record of a non-empty result was filtered.
C12_EmptyResultIsHardError ==
    /\ (Validated
           /\ response_json.keys = {"error", "query_result"}
           /\ response_json.error.isnull
           /\ response_json.query_result = <<>>)
          => /\ outcome = Raised("RuntimeError", <<"No records found in ClientsConfig table.">>)
             /\ outcome.kind # "exit"
             /\ filter_results = <<>>
    /\ (pc = "done" /\ entry = "get" /\ outcome.kind = "exit")
          => /\ WellFormed
             /\ Len(filter_results) = Len(response_json.query_result)

C12_Witness ==
    /\ Validated
    /\ pc = "done"
    /\ response_json.keys = {"error", "query_result"}
    /\ response_json.error.isnull
    /\ response_json.query_result = <<>>
    /\ outcome.exc = "RuntimeError"

----------------------------------------------------------------------------
(* Properties of the order of the steps and of the dispatch (Spec) *)

\* the filter cannot read the record: the key is not there, or the value is
\* no text, or it is a timestamp without offset
Unreadable(item) ==
    \/ item.last_successfull_download_run = Absent
    \/ checked_recently(item.last_successfull_download_run,
                        Timedelta(RE_RUN_INTERVAL_HOURS), utc_now).kind = "raise"

\* what the running pipeline does with the response after the query
ResponseCheck ==
    IF entry = "get" THEN validate_response_from_storage_table_connector(response_json)
    ELSE timer_trigger_main_check(response_json)

IsPrefix(a, b) == Len(a) <= Len(b) /\ \A k \in 1..Len(a) : a[k] = b[k]

\* C13: the steps of one invocation come in the order query, validate,
\* filter/build, dispatch: a message is handed to the queue only after every
\* record of the validated response went through the loop, and when the
\* query, the validation or the building of a record fails, the invocation
\* ends by raising that failure with nothing handed to the queue.
C13_StrictPipelineOrder ==
    /\ sent # <<>> =>
          /\ pc \in {"send", "done"}
          /\ ResponseCheck = Running
          /\ query_result = response_json.query_result
          /\ FilterAnsweredAll
          /\ IsPrefix(sent, list_of_messages)
          /\ Len(list_of_messages) = Len(Emitted(query_result, filter_results))
    /\ QueryDidFail => (pc = "done" /\ sent = <<>> /\ filter_results = <<>>)
    /\ (pc \in {"build", "send", "done"} /\ ~QueryDidFail /\ ResponseCheck # Running)
          => (pc = "done" /\ outcome = ResponseCheck /\ sent = <<>> /\ filter_results = <<>>)
    /\ (pc \in {"send", "done"} /\ ~QueryDidFail /\ ResponseCheck = Running
           /\ \E i \in 1..Len(response_json.query_result) :
                  Unreadable(response_json.query_result[i]))
          => (pc = "done" /\ outcome.kind = "raise" /\ sent = <<>>)
    /\ (outcome.kind = "raise" /\ outcome.exc # "ServiceBusError")
          => (pc = "done" /\ sent = <<>>)

C13_Witness ==
    /\ pc = "done"
    /\ entry = "timer_trigger_api"
    /\ Len(query_result) = 2
    /\ ~Unreadable(query_result[1])
    /\ Unreadable(query_result[2])
    /\ Len(list_of_messages) = 1
    /\ outcome.kind = "raise"
    /\ sent = <<>>

\* C14: when a cycle of the trigger returns, the messages handed to the
\* queue are exactly the list the builder returned: one message for every
\* record that was not recently checked, each handed over once, in the
\* order of the list; while the loop runs, what was handed over is a prefix
\* of the list.
C14_SentEqualsBuilderOutput ==
    /\ (pc = "done" /\ entry = "timer_trigger_api" /\ outcome = Returned) =>
          LET E == Emitted(query_result, filter_results) IN
          /\ sent = list_of_messages
          /\ Len(sent) = Len(E)
          /\ \A k \in 1..Len(sent) : json_loads(sent[k]) = ExpectedMessage(E[k])
    /\ pc = "send" => IsPrefix(sent, list_of_messages)

C14_Witness ==
    /\ pc = "done"
    /\ entry = "timer_trigger_api"
    /\ outcome = Returned
    /\ Len(sent) = 2
    /\ sent[1] # sent[2]
    /\ sent = list_of_messages

----------------------------------------------------------------------------
(* Properties of the queue modules (SpecQueue) *)

\* the message text carries the integer iteration i, as JSON or as the text
\* of a Python dict
CarriesIteration(text, i) ==
    \/ text = json_dumps(TestMessage(i))
    \/ text = python_literal(json_dumps(TestMessage(i)))
    \/ (i = ITERATION /\ text \in BuiltTexts)

\* C15: for a message with integer iteration i and a delay multiplier m, the
\* scheduled time is the clock at the call plus i * m minutes, from
\* get_scheduled_enqueue_time_utc as from calculate_delay_minutes followed by
\* setup_message_delay, for JSON text and for the text of a Python dict.
C15_ScheduledAtIterationTimesMultiplier ==
    \A i \in Iterations :
        (result # NotCalled
            /\ entry \in {"get_scheduled_enqueue_time_utc", "send_msg_to_queue.main"}
            /\ CarriesIteration(message_str, i))
            => /\ result.kind = "return"
               /\ result.val = utc_now * MINUTES_PER_HOUR + i * delay_multiplier

C15_Witness ==
    /\ result # NotCalled
    /\ entry = "get_scheduled_enqueue_time_utc"
    /\ message_str = python_literal(json_dumps(TestMessage(2)))
    /\ delay_multiplier = 3
    /\ utc_now = 1
    /\ result.kind = "return"
    /\ result.val = 66

\* C17: get_iteration_int returns the iteration of a message written as JSON
\* or as the text of a Python dict, and raises ValueError, and nothing else,
\* for every text that has no iteration entry or cannot be parsed.
C17_IterationOrValueError ==
    (result # NotCalled /\ entry = "get_iteration_int") =>
        /\ \A i \in Iterations :
              CarriesIteration(message_str, i)
                  => (result.kind = "return" /\ result.val = PyInt(i))
        /\ message_str \in NoIterationTexts \cup UnparsableTexts \cup NotDictTexts
              => (result.kind = "raise" /\ result.exc = "ValueError")

----------------------------------------------------------------------------
(* Properties of successive invocations (Spec) *)

Stamped(text) ==
    LET m == json_loads(text) IN
    /\ m[Field(m, "iteration")].items = <<PyInt(0)>>
    /\ m[Field(m, "query_elem_ref_no")].items = <<PyNone>>
    /\ m[Field(m, "part_elem_ref_no")].items = <<PyNone>>

\* C16: every message the pipeline builds carries iteration 0 and null
\* reference numbers, in the first invocation as in every later one,
\* however the earlier ones ended.
C16_IterationAlwaysZero ==
    /\ \A k \in 1..Len(list_of_messages) : Stamped(list_of_messages[k])
    /\ \A k \in 1..Len(sent) : Stamped(sent[k])

C16_Witness ==
    /\ previous = "return"
    /\ pc = "done"
    /\ entry = "timer_trigger_api"
    /\ Len(sent) = 2
    /\ Stamped(sent[2])

\* the records of a response run through the loop of the builder at one
\* reading of the clock
RECURSIVE BuildAll(_, _, _, _)
BuildAll(e, qr, now, list) ==
    IF qr = <<>> THEN [list |-> list, out |-> Running]
    ELSE LET p == IF e = "get"
                  THEN create_list_of_messages_loop(Head(qr), RealFilter,
                           Timedelta(RE_RUN_INTERVAL_HOURS), now, list)
                  ELSE timer_trigger_create_list_of_messages_loop(Head(qr),
                           Timedelta(RE_RUN_INTERVAL_HOURS), now, list)
         IN IF p.out # Running THEN [list |-> p.list, out |-> p.out]
            ELSE BuildAll(e, Tail(qr), now, p.list)

\* the list and the outcome of pipeline e for response r at clock now
CycleResult(e, r, now) ==
    LET v == IF e = "get" THEN validate_response_from_storage_table_connector(r)
             ELSE timer_trigger_main_check(r)
        b == BuildAll(e, r.query_result, now, <<>>)
    IN IF v # Running THEN [list |-> <<>>, out |-> v]
       ELSE IF b.out # Running THEN b
       ELSE IF e = "get" THEN [list |-> b.list, out |-> create_list_of_messages_exit(b.list)]
       ELSE [list |-> b.list, out |-> Returned]

\* C20: the list of messages and the outcome of an invocation (returned,
\* SystemExit or the error raised) are a function of the response of the
\* store and of the clock alone: whatever invocations ran before and however
\* they ended, the same response at the same time gives the same result.
C20_ResultIsFunctionOfResponseAndClock ==
    (pc \in {"send", "done"} /\ entry \in {"get", "timer_trigger_api"}
        /\ ~QueryDidFail /\ ~clock_moved) =>
        LET c == CycleResult(entry, response_json, utc_now) IN
        /\ list_of_messages = c.list
        /\ (pc = "done" /\ outcome.exc # "ServiceBusError") => outcome = c.out

C20_Witness ==
    /\ previous = "raise"
    /\ pc = "done"
    /\ entry = "timer_trigger_api"
    /\ ~clock_moved
    /\ utc_now = 1
    /\ outcome = Returned
    /\ Len(list_of_messages) = 1
    /\ Len(response_json.query_result) = 2

----------------------------------------------------------------------------
(* Properties of the serialization in create_list_of_messages (SpecBuilder) *)

\* a field of the record is a value json.dumps has no text for
NotRepresentable(item) ==
    \/ item.PartitionKey.ty = "object"
    \/ item.last_successfull_download_run.ty = "object"
    \/ item.penultimate_successfull_download_run.ty = "object"

\* C18 as stated: when a field of any record is not JSON-representable, the
\* build fails with an error, wherever the record stands: no list is
\* returned and no SystemExit is raised.
C18_UnrepresentableAlwaysFails ==
    (BuilderDone /\ \E i \in 1..Len(query_result) : NotRepresentable(query_result[i]))
        => outcome.kind = "raise"

\* C18 as amended: when a field of a record the filter did not exclude is
\* not JSON-representable, the build ends at that record with TypeError,
\* wherever the record stands and however many messages were serialized
\* before: no list is returned, the record is not passed over and no
\* SystemExit is raised; a record the filter excludes is never serialized
\* and fails nothing.
C18_UnrepresentableEligibleFails ==
    BuilderDone =>
        /\ \A i \in 1..Len(filter_results) :
              (filter_results[i] = Return(FALSE) /\ NotRepresentable(query_result[i]))
                  => /\ outcome = Raised("TypeError", <<>>)
                     /\ i = Len(filter_results)
                     /\ Len(list_of_messages)
                           = Len(Emitted(SubSeq(query_result, 1, i - 1), filter_results))
        /\ outcome.kind \in {"return", "exit"}
              => \A i \in 1..Len(query_result) :
                    NotRepresentable(query_result[i]) => filter_results[i] = Return(TRUE)

C18_Witness ==
    /\ BuilderDone
    /\ func_checked_recently = RealFilter
    /\ Len(query_result) = 2
    /\ Len(filter_results) = 2
    /\ ~NotRepresentable(query_result[1])
    /\ NotRepresentable(query_result[2])
    /\ Len(list_of_messages) = 1
    /\ outcome = Raised("TypeError", <<>>)

----------------------------------------------------------------------------
(* Properties of termination (SpecLive) *)

InvocationRunning == pc \notin {"idle", "done"}

\* C19: every invocation terminates, in a dispatch, in NoWork or in an
\* error: the query and the dispatch call carry the caller's timeout, so a
\* collaborator that never answers ends the call with a timeout error.
C19_EveryInvocationTerminates == InvocationRunning ~> (pc = "done")

\* what does hold: the invocations of list_of_clients.get and of the deployed
\* trigger, whose query and schedule_messages calls carry a timeout, end
C19_PipelinesTerminate ==
    (InvocationRunning /\ entry \in {"get", "timer_trigger_api"}) ~> (pc = "done")

----------------------------------------------------------------------------
(* Properties of the batch sender messages_to_queue.send (SpecBatch) *)

\* the call of send that is running or has ended
SendCall == entry = "send"

\* the ServiceBusMessage that send builds for a message text at clock now
Built(text, now) ==
    ServiceBusMessage(text,
        get_scheduled_enqueue_time_utc(text, delay_multiplier, now).val)

\* C21: messages_to_queue.send builds one ServiceBusMessage per message of
\* its input, in the order of the input, each with the text of the message
\* as body and the scheduled time got for that very message; all of them
\* go, once each and in that order, into one batch; nothing reaches the
\* queue before the one send_messages call, and what that call hands over
\* is the batch: the input texts, in order.
C21_OneMessagePerInputInOrder ==
    SendCall =>
      /\ (pc \in {"build_batch", "send_messages"} \/ (pc = "done" /\ outcome = Returned)) =>
            /\ Len(list_of_service_bus_messages) = Len(list_of_messages)
            /\ \E now \in Times :
                  \A i \in 1..Len(list_of_messages) :
                      list_of_service_bus_messages[i] = Built(list_of_messages[i], now)
      /\ (pc = "send_messages" \/ (pc = "done" /\ outcome = Returned)) =>
            batch_message = list_of_service_bus_messages
      /\ pc \in {"build_list", "build_batch", "send_messages"} => sent = <<>>
      /\ (pc = "done" /\ outcome = Returned) => sent = list_of_messages
      /\ (pc = "done" /\ outcome # Returned) => sent = <<>>

C21_Witness ==
    /\ SendCall
    /\ pc = "done"
    /\ outcome = Returned
    /\ Len(list_of_messages) = 2
    /\ list_of_messages[1] # list_of_messages[2]
    /\ batch_message[1].scheduled_enqueue_time_utc
          # batch_message[2].scheduled_enqueue_time_utc
    /\ sent = list_of_messages

----------------------------------------------------------------------------
(* Properties of the "log" logger (SpecLogger) *)

\* the level the most recent call asked for, when there is one
AskedLevel ==
    IF last_set_up.fn = "logger.set_up" THEN checkLevel(last_set_up.level)
    ELSE get_logger_level(last_set_up.level)

\* the only handler is the one the most recent call made
OneHandlerOfLastCall ==
    /\ Len(handlers) = 1
    /\ handlers[1].call = set_up_calls
    /\ handlers[1].formatter = Formatter(last_set_up.message_format).val

\* C22 as stated: after one or more calls of a set_up, with any levels and
\* formats, the logger has exactly one handler, the one the most recent
\* call installed, and the level of the most recent call.
C22_OneHandlerAfterAnyCalls ==
    set_up_calls > 0 =>
        /\ OneHandlerOfLastCall
        /\ AskedLevel.kind = "return" => level = AskedLevel.val

\* C22, for calls that return: after one or more calls of a set_up of which
\* the most recent returned, the logger has exactly one handler, the one
\* that call installed, and the level that call asked for; and after any
\* calls, returned or not, the logger has at most one handler.
C22_OneHandlerAfterReturnedCall ==
    /\ Len(handlers) <= 1
    /\ (set_up_calls > 0 /\ last_set_up.out = Returned) =>
          /\ OneHandlerOfLastCall
          /\ level = AskedLevel.val

C22_Witness ==
    /\ set_up_calls = MaxCalls
    /\ last_set_up.out = Returned
    /\ last_set_up.fn = "custom_logger.set_up"
    /\ last_set_up.message_format = FormatStr(<<FormatField("message")>>)
    /\ last_set_up.level = PyStr("debug")
    /\ handlers = <<StreamHandler(<<FormatField("message")>>, MaxCalls)>>
    /\ level = DEBUG

----------------------------------------------------------------------------
(* Properties of the validated pipeline list_of_clients.get (Spec) *)

\* C23: in list_of_clients.get the builder is never entered with an empty
\* sequence of records, since the validation ends the call first; so when
\* the call ends in NoWorkCondition (SystemExit) there was at least one
\* record and the filter returned True for every one of them.
C23_GetNeverBuildsFromEmpty ==
    entry = "get" =>
      /\ pc = "build" =>
            /\ query_result # <<>>
            /\ query_result = response_json.query_result
      /\ outcome.kind = "exit" =>
            /\ Len(query_result) >= 1
            /\ Len(filter_results) = Len(query_result)
            /\ \A i \in 1..Len(filter_results) : filter_results[i] = Return(TRUE)
            /\ list_of_messages = <<>>

C23_Witness ==
    /\ entry = "get"
    /\ pc = "done"
    /\ outcome = Exited(<<"No new messages to send.">>)
    /\ Len(query_result) = MaxRecords
    /\ \A i \in 1..MaxRecords : filter_results[i] = Return(TRUE)

----------------------------------------------------------------------------
(* Properties of the two ways of dispatch (SpecDispatch) *)

DispatchFailed == pc = "done" /\ outcome = Raised("ServiceBusError", <<>>)

\* C24: the deployed trigger hands its messages to the queue one call at a
\* time, in list order: what was handed over is always a prefix of the
\* list; when the call for the k-th message fails the invocation ends with
\* that error, the k-1 messages before it are sent and stay sent, and no
\* later message is sent.  The batch sender hands over nothing or, in its
\* one send_messages call, all of its messages.
C24_TriggerPartialBatchWhole ==
    /\ entry = "timer_trigger_api" =>
          /\ IsPrefix(sent, list_of_messages)
          /\ \A k \in 1..Len(sent) : sent[k] = list_of_messages[k]
          /\ DispatchFailed => Len(sent) < Len(list_of_messages)
          /\ (pc = "done" /\ outcome = Returned) => sent = list_of_messages
    /\ entry = "send" =>
          /\ sent \in {<<>>, list_of_messages}
          /\ DispatchFailed => sent = <<>>
          /\ (pc = "done" /\ outcome = Returned) => sent = list_of_messages

C24_Witness ==
    /\ entry = "timer_trigger_api"
    /\ DispatchFailed
    /\ Len(list_of_messages) = MaxRecords
    /\ Len(sent) = MaxRecords - 1
    /\ sent[1] = list_of_messages[1]
    /\ list_of_messages[1] # list_of_messages[MaxRecords]

----------------------------------------------------------------------------
(* Overlapping invocations of the deployed trigger.  Nothing in            *)
(* timer_trigger_api asks whether another invocation is running, and the   *)
(* only request to the store is the get_all query, so the invocations      *)
(* share the store content, the clock and the queue, and nothing else.     *)

\* send_msg_to_queue.send_scheduled_message: the queue takes the message
ScheduledBy(i, body) == [by |-> i, body |-> body]

\* faulty variant: a message whose text is already in the queue is dropped
schedule_messages_dedup(q, i, body) ==
    IF \E k \in 1..Len(q) : q[k].body = body THEN q
    ELSE Append(q, ScheduledBy(i, body))

schedule_messages(q, i, body) == Append(q, ScheduledBy(i, body))

InitOverlap ==
    /\ utc_now = 0
    /\ datetime_string = PyNone
    /\ target_timedelta = PyNone
    /\ result = NotCalled
    /\ BuildIdle
    /\ QueueIdle
    /\ LoggerLoaded
    /\ store \in SeqsUpTo(StoreItems, MaxRecords)
    /\ invocation = [i \in Invocations |-> Invocation("idle", 0, <<>>, 0, Running)]
    /\ servicebus_queue = <<>>

OverlapUnchanged ==
    UNCHANGED <<utc_now, filter_vars, build_vars, pipe_vars, queue_vars, cycle_vars,
                logger_vars, store>>

\* the host fires timer_trigger_api, whatever the other invocation does
OverlapStart(i) ==
    /\ invocation[i].pc = "idle"
    /\ invocation' = [invocation EXCEPT ![i].pc = "main"]
    /\ UNCHANGED servicebus_queue
    /\ OverlapUnchanged

\* timer_trigger.main: the query of the store, the check and the builder
OverlapMain(i) ==
    /\ invocation[i].pc = "main"
    /\ LET c == CycleResult("timer_trigger_api",
                            Response({"error", "query_result"}, NoError, store), utc_now)
       IN invocation' = [invocation EXCEPT ![i] =
              IF c.out = Returned
              THEN Invocation("send", utc_now, c.list, 0, Running)
              ELSE Invocation("done", utc_now, <<>>, 0, c.out)]
    /\ UNCHANGED servicebus_queue
    /\ OverlapUnchanged

\* send_msg_to_queue.main for the next message of the invocation
OverlapSendMessage(i) ==
    /\ invocation[i].pc = "send"
    /\ invocation[i].sent < Len(invocation[i].list_of_messages)
    /\ servicebus_queue' = schedule_messages(servicebus_queue, i,
            invocation[i].list_of_messages[invocation[i].sent + 1])
    /\ invocation' = [invocation EXCEPT ![i].sent = @ + 1]
    /\ OverlapUnchanged

\* send_msg_to_queue.main fails: the invocation ends with the error
OverlapSendFailed(i) ==
    /\ invocation[i].pc = "send"
    /\ invocation[i].sent < Len(invocation[i].list_of_messages)
    /\ invocation' = [invocation EXCEPT ![i].pc = "done",
                                        ![i].outcome = Raised("ServiceBusError", <<>>)]
    /\ UNCHANGED servicebus_queue
    /\ OverlapUnchanged

\* the loop is over: timer_trigger_api returns
OverlapReturn(i) ==
    /\ invocation[i].pc = "send"
    /\ invocation[i].sent = Len(invocation[i].list_of_messages)
    /\ invocation' = [invocation EXCEPT ![i].pc = "done", ![i].outcome = Returned]
    /\ UNCHANGED servicebus_queue
    /\ OverlapUnchanged

NextOverlap ==
    \/ Tick
    \/ \E i \in Invocations : OverlapStart(i)
    \/ \E i \in Invocations : OverlapMain(i)
    \/ \E i \in Invocations : OverlapSendMessage(i)
    \/ \E i \in Invocations : OverlapSendFailed(i)
    \/ \E i \in Invocations : OverlapReturn(i)

SpecOverlap == InitOverlap /\ [][NextOverlap]_vars

----------------------------------------------------------------------------
(* Properties of overlapping invocations (SpecOverlap) *)

\* the records of the store that are eligible at clock now
Eligible(now) ==
    { k \in 1..Len(store) :
        timer_trigger_checked_recently(store[k].last_successfull_download_run,
            Timedelta(RE_RUN_INTERVAL_HOURS), now) = Return(FALSE) }

\* the messages invocation i gave to the queue, in the order it gave them
RECURSIVE ScheduledTexts(_, _)
ScheduledTexts(q, i) ==
    IF q = <<>> THEN <<>>
    ELSE (IF Head(q).by = i THEN <<Head(q).body>> ELSE <<>>) \o ScheduledTexts(Tail(q), i)

Times_in(seq, x) == Cardinality({k \in 1..Len(seq) : seq[k] = x})

AllReturned == \A i \in Invocations : invocation[i].outcome = Returned

\* C25: no invocation waits for another and none changes the store; each
\* invocation that returns has given the queue one message for every record
\* of the store that was eligible at its reading of the clock, whatever the
\* other invocation gave; so when the invocations that overlap all return,
\* the queue holds as many messages as all of them built together, and a
\* message built by two of them is there twice.
C25_EachInvocationEnqueuesItsOwn ==
    /\ \A i \in Invocations :
          LET own == ScheduledTexts(servicebus_queue, i) IN
          /\ own = SubSeq(invocation[i].list_of_messages, 1, invocation[i].sent)
          /\ invocation[i].outcome = Returned =>
                /\ invocation[i].sent = Len(invocation[i].list_of_messages)
                /\ Len(own) = Cardinality(Eligible(invocation[i].now))
                /\ \A k \in Eligible(invocation[i].now) :
                      \E n \in 1..Len(own) :
                          json_loads(own[n]) = ExpectedMessage(store[k])
    /\ AllReturned =>
          \A i \in Invocations, j \in Invocations :
              \A n \in 1..Len(invocation[i].list_of_messages) :
                  LET text == invocation[i].list_of_messages[n] IN
                  Times_in([k \in 1..Len(servicebus_queue) |-> servicebus_queue[k].body], text)
                      >= Times_in(invocation[i].list_of_messages, text)
                         + (IF i # j THEN Times_in(invocation[j].list_of_messages, text)
                            ELSE 0)

C25_Witness ==
    /\ AllReturned
    /\ Len(store) = 1
    /\ Len(servicebus_queue) = 2
    /\ servicebus_queue[1].body = servicebus_queue[2].body
    /\ servicebus_queue[1].by # servicebus_queue[2].by

----------------------------------------------------------------------------
(* Properties of the two revisions of the pipeline, side by side (Spec) *)

\* the revision that is not running
OtherRevision == IF entry = "get" THEN "timer_trigger_api" ELSE "get"

\* an invocation ended in the pipeline itself, at one reading of the clock
EndedInPipeline ==
    /\ pc = "done"
    /\ entry \in {"get", "timer_trigger_api"}
    /\ ~QueryDidFail
    /\ ~clock_moved
    /\ outcome.exc # "ServiceBusError"

\* C26: on a response that passes the validation, the builders of
\* list_of_clients (with checked_recently as filter) and of timer_trigger
\* give the same list of messages, and the same outcome whenever a message
\* was built or an error was raised; they part only when no record is
\* eligible: timer_trigger returns the empty list, list_of_clients ends in
\* SystemExit.  timer_trigger.main validates nothing: an empty query_result
\* gives the empty list, and a missing key never gives the RuntimeError of
\* the validator.
C26_RevisionsAgreeUnlessNothingEligible ==
    /\ (EndedInPipeline /\ WellFormed) =>
          LET c == CycleResult(OtherRevision, response_json, utc_now) IN
          /\ list_of_messages = c.list
          /\ (list_of_messages # <<>> \/ outcome.kind = "raise") => outcome = c.out
          /\ (list_of_messages = <<>> /\ outcome.kind # "raise") =>
                /\ entry = "get" => (outcome.kind = "exit" /\ c.out = Returned)
                /\ entry = "timer_trigger_api" => (outcome = Returned /\ c.out.kind = "exit")
    /\ (EndedInPipeline /\ entry = "timer_trigger_api") =>
          /\ outcome.exc # "RuntimeError"
          /\ (response_json.keys = {"error", "query_result"} /\ response_json.error.isnull
                  /\ response_json.query_result = <<>>) =>
                /\ outcome = Returned
                /\ list_of_messages = <<>>
                /\ CycleResult("get", response_json, utc_now).out.exc = "RuntimeError"

C26_Witness ==
    /\ EndedInPipeline
    /\ WellFormed
    /\ entry = "timer_trigger_api"
    /\ outcome = Returned
    /\ Len(response_json.query_result) = 2
    /\ Len(list_of_messages) = 1
    /\ CycleResult("get", response_json, utc_now).list = list_of_messages
    /\ utc_now > 0

----------------------------------------------------------------------------
(* Properties of the builder on timestamps without offset (SpecBuilder) *)

\* the builder runs with checked_recently itself as filter
RealBuild == entry = "create_list_of_messages" /\ func_checked_recently = RealFilter

\* C27: for a last_checked that is an ISO-8601 timestamp without offset,
\* checked_recently returns no boolean but raises TypeError, whatever the
\* window and the clock; the error leaves the builder as it is, so the
\* build ends at the first such record: no record after it is filtered and
\* no list is returned.
C27_NaiveTimestampAbortsBuild ==
    /\ \A ds \in NaiveStamps, td \in Windows, now \in Times :
          checked_recently(ds, td, now) = Raise("TypeError")
    /\ RealBuild =>
          \A k \in 1..Len(filter_results) :
              query_result[k].last_successfull_download_run \in NaiveStamps =>
                  /\ filter_results[k] = Raise("TypeError")
                  /\ k = Len(filter_results)
                  /\ pc = "done"
                  /\ outcome = Raised("TypeError", <<>>)
    /\ (RealBuild /\ pc = "done" /\ outcome.kind # "raise") =>
          \A k \in 1..Len(query_result) :
              query_result[k].last_successfull_download_run \notin NaiveStamps

C27_Witness ==
    /\ RealBuild
    /\ pc = "done"
    /\ Len(query_result) = 2
    /\ query_result[1].last_successfull_download_run = PyStr("null")
    /\ query_result[2].last_successfull_download_run \in NaiveStamps
    /\ filter_results = <<Return(FALSE), Raise("TypeError")>>
    /\ outcome = Raised("TypeError", <<>>)

----------------------------------------------------------------------------
(* Properties of checked_recently on timestamps ahead of the clock         *)
(* (SpecFilter)                                                            *)

\* the call was made with a timestamp that carries an offset and with a
\* window that is a positive duration
TimestampAndPositiveWindow ==
    /\ Called
    /\ datetime_string \in AwareStamps
    /\ target_timedelta \in Durations
    /\ target_timedelta.t > 0

\* the instant the timestamp names
LastChecked == UtcInstant(fromisoformat(datetime_string))

\* C28: for a last_checked later than the clock and any positive window,
\* checked_recently returns True; it goes on returning True as long as the
\* clock is before last_checked plus the window and returns False from
\* then on.  Both revisions of checked_recently answer alike.
C28_FutureTimestampIsRecent ==
    TimestampAndPositiveWindow =>
        /\ LastChecked > utc_now => result = Return(TRUE)
        /\ result = Return(utc_now < LastChecked + target_timedelta.t)
        /\ timer_trigger_checked_recently(datetime_string, target_timedelta, utc_now)
              = result

C28_Witness ==
    /\ TimestampAndPositiveWindow
    /\ LastChecked > utc_now + 1
    /\ target_timedelta = Timedelta(1)
    /\ result = Return(TRUE)

----------------------------------------------------------------------------
(* Properties of the delay of the messages the pipeline builds (Spec) *)

\* the multipliers a sender can run with: those of the model, and the one
\* of the invocation
AnyMultiplier == Multipliers \cup {delay_multiplier}

\* for every multiplier, both senders schedule the message for the clock
\* of the call itself
ScheduledAtOnce(text) ==
    \A m \in AnyMultiplier :
        /\ main_scheduled_time_utc(text, m, utc_now) = Return(utc_now * MINUTES_PER_HOUR)
        /\ get_scheduled_enqueue_time_utc(text, m, utc_now)
              = Return(utc_now * MINUTES_PER_HOUR)

\* C29: every message the pipeline builds, and so every message it hands
\* to the queue, is scheduled without delay: its iteration is 0, so the
\* scheduled time is the clock at the dispatch, whatever the multiplier
\* (the 10 of send_msg_to_queue.main, the 2 of messages_to_queue.send or
\* any other); no subject of a cycle is put off against another.
C29_BuiltMessagesScheduledAtOnce ==
    /\ \A k \in 1..Len(list_of_messages) : ScheduledAtOnce(list_of_messages[k])
    /\ \A k \in 1..Len(sent) : ScheduledAtOnce(sent[k])

C29_Witness ==
    /\ pc = "done"
    /\ entry = "timer_trigger_api"
    /\ outcome = Returned
    /\ delay_multiplier = DELAY_MULTIPLIER
    /\ utc_now > 0
    /\ Len(sent) = 2
    /\ sent[1] # sent[2]
    /\ \A k \in 1..2 :
          main_scheduled_time_utc(sent[k], delay_multiplier, utc_now)
              = Return(utc_now * MINUTES_PER_HOUR)

----------------------------------------------------------------------------
(* What the decisions of the builder depend on (SpecBuilder) *)

\* create_list_of_messages as a whole at one reading of the clock: what the
\* filter answered per record, the list, and how the call ended
RECURSIVE RunBuilder(_, _, _, _, _, _)
RunBuilder(qr, f, td, now, fr, list) ==
    IF qr = <<>> THEN Pass(fr, list, create_list_of_messages_exit(list))
    ELSE LET p == create_list_of_messages_loop(Head(qr), f, td, now, list) IN
         IF p.out # Running THEN Pass(fr \o p.fr, p.list, p.out)
         ELSE RunBuilder(Tail(qr), f, td, now, fr \o p.fr, p.list)

HasIdAndPrevious(item) ==
    /\ item.PartitionKey # Absent
    /\ item.penultimate_successfull_download_run # Absent

Representable(item) ==
    /\ Serializable(item.PartitionKey)
    /\ Serializable(item.penultimate_successfull_download_run)

\* the sequences of records from Items that differ from qr at most in the
\* subject ids and in the values of the run before the last
RECURSIVE Variants(_, _)
Variants(qr, Items) ==
    IF qr = <<>> THEN {<<>>}
    ELSE { <<h>> \o t :
             h \in { i \in Items :
                       /\ HasIdAndPrevious(i)
                       /\ i.last_successfull_download_run
                             = Head(qr).last_successfull_download_run },
             t \in Variants(Tail(qr), Items) }

\* the builder ended, at one reading of the clock, on records that all have
\* a subject id and a run before the last
BuiltAtOnce ==
    /\ BuilderDone
    /\ ~clock_moved
    /\ \A k \in 1..Len(query_result) : HasIdAndPrevious(query_result[k])

\* the run on qr2 decides like the run that ended: the same answer of the
\* filter at every position, as many messages, NoWorkCondition or not alike
DecidesAlike(qr2) ==
    LET r == RunBuilder(qr2, func_checked_recently, re_run_interval, utc_now, <<>>, <<>>) IN
    /\ r.fr = filter_results
    /\ Len(r.list) = Len(list_of_messages)
    /\ (r.out.kind = "exit") = (outcome.kind = "exit")

\* C30 as stated: two sequences of records that differ only in subject ids
\* or in the values of the run before the last get the same decisions at
\* every position and the same NoWorkCondition-or-not outcome.
C30_DecisionsIgnoreIdAndPrevious ==
    BuiltAtOnce => \A qr2 \in Variants(query_result, CallerItems) : DecidesAlike(qr2)

\* C30, for values JSON can write: two sequences of records that differ
\* only in subject ids or in the values of the run before the last, all of
\* them JSON-representable, get the same decisions at every position, the
\* same number of messages and the same NoWorkCondition-or-not outcome.
C30_DecisionsIgnoreRepresentableIdAndPrevious ==
    (BuiltAtOnce /\ \A k \in 1..Len(query_result) : Representable(query_result[k])) =>
        \A qr2 \in Variants(query_result, {i \in CallerItems : Representable(i)}) :
            DecidesAlike(qr2)

C30_Witness ==
    /\ BuiltAtOnce
    /\ func_checked_recently = RealFilter
    /\ Len(query_result) = 2
    /\ \A k \in 1..2 : Representable(query_result[k])
    /\ filter_results = <<Return(TRUE), Return(FALSE)>>
    /\ \E qr2 \in Variants(query_result, {i \in CallerItems : Representable(i)}) :
          /\ qr2[1].PartitionKey # query_result[1].PartitionKey
          /\ qr2[1].penultimate_successfull_download_run
                # query_result[1].penultimate_successfull_download_run
          /\ DecidesAlike(qr2)

====
